---------------------------- MODULE Spec2Model ----------------------------
(***************************************************************************)
(* A model of ViperLogs' retrieval core: the ULID identity scheme          *)
(* (viper_logs/ulid.py), the inverted index (viper_logs/indexer.py), the   *)
(* fuzzy index (viper_logs/fuzzy_search.py) and the boolean query engine   *)
(* (viper_logs/boolean_search.py).                                         *)
(*                                                                         *)
(* Representation.  A Python str is a sequence of one-character strings.   *)
(* The 48-bit timestamp is a natural number (the clock of the model stays  *)
(* small).  The 80-bit randomness does not fit a TLC integer, so it is     *)
(* kept at its full width as RANDOM_LEN radix-32 limbs, most significant   *)
(* first; & 0x1F, >> 5, * 32 + d, + 1 and < are defined on limbs.          *)
(* The specifications: SpecCodec (rendering and parsing of identifiers),   *)
(* SpecMono and SpecMonoFair (generate_monotonic under its lock),          *)
(* SpecIndex, SpecFuzzy, SpecBool, SpecRank and SpecKeys (the index based  *)
(* engines of one BooleanSearchIndexer), SpecScan (LogSearchEngine.search  *)
(* over the stored lines, viper_logs/search.py) and SpecLogger             *)
(* (AdvancedLogger.log with LogStorage, viper_logs/logger.py and           *)
(* viper_logs/storage.py).                                                 *)
(***************************************************************************)
EXTENDS Integers, Sequences, FiniteSets, TLC

VARIABLES
    \* --- SpecCodec: two identifiers, their rendered and re-parsed forms
    x, y, sx, sy, px, phase,
    \* --- SpecMono: the clock, ULID._lock, ULID._last_timestamp,
    \*     ULID._last_randomness and each thread's place and locals
    now, lock, pc, ts, rnd, last_timestamp, last_randomness, issued,
    \*     spins: the reads of the clock each thread has made in the loop that
    \*     waits for the next millisecond
    spins,
    \* --- SpecIndex: TextIndexer.index/documents/doc_count,
    \*     FuzzySearchIndex.term_docs/doc_terms, and the last call's outcome
    index, documents, doc_count, term_docs, doc_terms, removed, last,
    \* --- SpecScan: the lines of the log files LogSearchEngine.search reads
    storage,
    \* --- SpecLogger: AdvancedLogger.fuzzy_indexer (its boolean_indexer is the
    \*     indexer above, its storage the lines above) and the time of the last
    \*     write to the log file
    fuzzy_indexer, mtime,
    \* --- SpecParse: the query BooleanParser.parse was given, the activations
    \*     of _parse_expression on the call stack, and what parse returned
    parse_query, frames, parsed,
    \* --- SpecFresh: the LogQuery a caller has built and not executed yet
    built

codecVars == <<x, y, sx, sy, px, phase>>
monoVars  == <<now, lock, pc, ts, rnd, last_timestamp, last_randomness, issued, spins>>
indexVars == <<index, documents, doc_count, term_docs, doc_terms, removed, last>>
scanVars  == <<storage>>
loggerVars == <<fuzzy_indexer, mtime>>
parserVars == <<parse_query, frames, parsed>>
queryVars == <<built>>
vars      == <<codecVars, monoVars, indexVars, scanVars, loggerVars, parserVars, queryVars>>

(***************************************************************************)
(* Python builtins on str and list                                         *)
(***************************************************************************)
Min2(a, b) == IF a <= b THEN a ELSE b
Max2(a, b) == IF a >= b THEN a ELSE b

SeqRange(s) == {s[i] : i \in 1..Len(s)}

UpperLetters == <<"A","B","C","D","E","F","G","H","I","J","K","L","M",
                  "N","O","P","Q","R","S","T","U","V","W","X","Y","Z">>
LowerLetters == <<"a","b","c","d","e","f","g","h","i","j","k","l","m",
                  "n","o","p","q","r","s","t","u","v","w","x","y","z">>
Digits       == <<"0","1","2","3","4","5","6","7","8","9">>

IndexOf(seq, c) == CHOOSE i \in 1..Len(seq) : seq[i] = c

\* ord(c): the code point that str comparison orders by
Ord(c) ==
    IF c \in SeqRange(Digits) THEN 47 + IndexOf(Digits, c)
    ELSE IF c \in SeqRange(UpperLetters) THEN 64 + IndexOf(UpperLetters, c)
    ELSE IF c \in SeqRange(LowerLetters) THEN 96 + IndexOf(LowerLetters, c)
    ELSE IF c = "_" THEN 95
    ELSE IF c = "(" THEN 40
    ELSE IF c = ")" THEN 41
    ELSE 32

UpperChar(c) ==
    IF c \in SeqRange(LowerLetters) THEN UpperLetters[IndexOf(LowerLetters, c)] ELSE c
LowerChar(c) ==
    IF c \in SeqRange(UpperLetters) THEN LowerLetters[IndexOf(UpperLetters, c)] ELSE c

\* str.upper() and str.lower()
Upper(s) == [i \in 1..Len(s) |-> UpperChar(s[i])]
Lower(s) == [i \in 1..Len(s) |-> LowerChar(s[i])]

\* s < t on str: the first differing code point decides, a proper prefix is smaller
RECURSIVE StrLessFrom(_, _, _)
StrLessFrom(s, t, i) ==
    IF i > Len(t) THEN FALSE
    ELSE IF i > Len(s) THEN TRUE
    ELSE IF s[i] # t[i] THEN Ord(s[i]) < Ord(t[i])
    ELSE StrLessFrom(s, t, i + 1)

StrLess(s, t) == StrLessFrom(s, t, 1)

(***************************************************************************)
(* viper_logs/ulid.py                                                      *)
(***************************************************************************)
ENCODING_CHARS == <<"0","1","2","3","4","5","6","7","8","9","A","B","C","D","E","F",
                    "G","H","J","K","M","N","P","Q","R","S","T","V","W","X","Y","Z">>

DECODING_CHARS == [c \in SeqRange(ENCODING_CHARS) |-> IndexOf(ENCODING_CHARS, c) - 1]

TIME_LEN   == 10
RANDOM_LEN == 16
TOTAL_LEN  == TIME_LEN + RANDOM_LEN

\* 80-bit values as RANDOM_LEN limbs of 5 bits, most significant first
RANDOM_MAX == [i \in 1..RANDOM_LEN |-> 31]
RandZero   == [i \in 1..RANDOM_LEN |-> 0]

\* val & 0x1F
LowBits(val) == val[RANDOM_LEN]
\* val >> 5
ShiftRight5(val) == <<0>> \o SubSeq(val, 1, RANDOM_LEN - 1)
\* val * 32 + d, for a val below 2^75 (the decoder never exceeds it)
MulAdd32(val, d) == SubSeq(val, 2, RANDOM_LEN) \o <<d>>

\* val + 1, for val # RANDOM_MAX: the carry runs through the trailing 31s
RECURSIVE IncFrom(_, _)
IncFrom(val, i) ==
    IF i = 0 THEN val
    ELSE IF val[i] = 31 THEN IncFrom([val EXCEPT ![i] = 0], i - 1)
    ELSE [val EXCEPT ![i] = val[i] + 1]

RandInc(val) == IncFrom(val, RANDOM_LEN)

\* a < b on 80-bit values
RECURSIVE RandLessFrom(_, _, _)
RandLessFrom(a, b, i) ==
    IF i > RANDOM_LEN THEN FALSE
    ELSE IF a[i] # b[i] THEN a[i] < b[i]
    ELSE RandLessFrom(a, b, i + 1)

RandLess(a, b) == RandLessFrom(a, b, 1)

\* the 80-bit value of a small natural number
RECURSIVE RandOfFrom(_, _)
RandOfFrom(n, k) ==
    IF k = 0 THEN <<>> ELSE RandOfFrom(n \div 32, k - 1) \o <<n % 32>>

RandOf(n) == RandOfFrom(n, RANDOM_LEN)

ULID(timestamp_ms, randomness) ==
    [timestamp_ms |-> timestamp_ms, randomness |-> randomness]

\* ULID.__str__, the timestamp loop: each digit is put in FRONT of the text
RECURSIVE EncodeTime(_, _)
EncodeTime(val, n) ==
    IF n = 0 THEN <<>>
    ELSE EncodeTime(val \div 32, n - 1) \o <<ENCODING_CHARS[(val % 32) + 1]>>

\* ULID.__str__, the randomness loop: each digit is put at the END of the text
RECURSIVE EncodeRandomAppend(_, _)
EncodeRandomAppend(val, n) ==
    IF n = 0 THEN <<>>
    ELSE <<ENCODING_CHARS[LowBits(val) + 1]>> \o EncodeRandomAppend(ShiftRight5(val), n - 1)

EncodeRandom(val) == EncodeRandomAppend(val, RANDOM_LEN)

Str(u) == EncodeTime(u.timestamp_ms, TIME_LEN) \o EncodeRandom(u.randomness)

\* ULID.from_str, the two decoding loops
RECURSIVE DecodeTime(_, _, _)
DecodeTime(s, i, acc) ==
    IF i > Len(s) THEN acc
    ELSE DecodeTime(s, i + 1, acc * 32 + DECODING_CHARS[s[i]])

RECURSIVE DecodeRandom(_, _, _)
DecodeRandom(s, i, acc) ==
    IF i > Len(s) THEN acc
    ELSE DecodeRandom(s, i + 1, MulAdd32(acc, DECODING_CHARS[s[i]]))

ValueError == [error |-> "ValueError"]

FromStr(ulid_str) ==
    IF Len(ulid_str) # TOTAL_LEN THEN ValueError
    ELSE LET u == Upper(ulid_str) IN
         IF ~(\A i \in 1..Len(u) : u[i] \in DOMAIN DECODING_CHARS) THEN ValueError
         ELSE ULID(DecodeTime(SubSeq(u, 1, TIME_LEN), 1, 0),
                   DecodeRandom(SubSeq(u, TIME_LEN + 1, TOTAL_LEN), 1, RandZero))

\* ULID.__eq__ and ULID.__lt__
UlidEq(a, b) == a.timestamp_ms = b.timestamp_ms /\ a.randomness = b.randomness
UlidLt(a, b) ==
    IF a.timestamp_ms # b.timestamp_ms THEN a.timestamp_ms < b.timestamp_ms
    ELSE RandLess(a.randomness, b.randomness)

(***************************************************************************)
(* Finite maps (Python dict) and exact fractions (Python float results)    *)
(***************************************************************************)
EmptyMap == <<>>
Put(f, k, v) == [z \in (DOMAIN f) \cup {k} |-> IF z = k THEN v ELSE f[z]]
Drop(f, k)   == [z \in (DOMAIN f) \ {k} |-> f[z]]

RECURSIVE Gcd(_, _)
Gcd(a, b) == IF b = 0 THEN a ELSE Gcd(b, a % b)

\* the fraction n/d in lowest terms, d > 0
Frac(n, d) == LET g == Gcd(IF n < 0 THEN -n ELSE n, d) IN [num |-> n \div g, den |-> d \div g]
FracZero == Frac(0, 1)
FracOne  == Frac(1, 1)
FracAdd(a, b) == Frac(a.num * b.den + b.num * a.den, a.den * b.den)
FracMul(a, b) == Frac(a.num * b.num, a.den * b.den)
FracGeq(a, b) == a.num * b.den >= b.num * a.den
FracLess(a, b) == a.num * b.den < b.num * a.den

(***************************************************************************)
(* viper_logs/indexer.py                                                   *)
(***************************************************************************)
stop_words == { <<"l","e">>, <<"l","a">>, <<"l","e","s">>, <<"d","e">>, <<"d","u">>,
                <<"d","e","s">>, <<"u","n">>, <<"u","n","e">>, <<"e","t">>, <<"e","s","t">> }

\* \w of the regular expression
IsWordChar(c) ==
    c \in SeqRange(LowerLetters) \cup SeqRange(UpperLetters) \cup SeqRange(Digits) \cup {"_"}

\* re.findall(r'\b\w+\b', s): the maximal runs of word characters, in order
RECURSIVE FindWords(_, _, _, _)
FindWords(s, i, cur, acc) ==
    IF i > Len(s) THEN (IF cur = <<>> THEN acc ELSE Append(acc, cur))
    ELSE IF IsWordChar(s[i]) THEN FindWords(s, i + 1, Append(cur, s[i]), acc)
    ELSE FindWords(s, i + 1, <<>>, IF cur = <<>> THEN acc ELSE Append(acc, cur))

\* [w for w in words if w not in stop_words]
RECURSIVE WithoutStopWords(_)
WithoutStopWords(words) ==
    IF words = <<>> THEN <<>>
    ELSE IF Head(words) \in stop_words THEN WithoutStopWords(Tail(words))
    ELSE <<Head(words)>> \o WithoutStopWords(Tail(words))

\* TextIndexer._tokenize
Tokenize(text) == WithoutStopWords(FindWords(Lower(text), 1, <<>>, <<>>))

\* TextIndexer._calculate_tf: term_count / doc_length
CalculateTf(term_count, doc_length) ==
    IF doc_length > 0 THEN Frac(term_count, doc_length) ELSE FracZero

\* math.log of a quotient of two positive integers, in thousandths
LnMilli == <<0, 693, 1099, 1386, 1609, 1792, 1946, 2079, 2197, 2303>>
MathLogMilli(num, den) == LnMilli[num] - LnMilli[den]

\* TextIndexer._calculate_idf: log((1 + doc_count) / (1 + doc_with_term)) + 1
CalculateIdf(idx, count, term) ==
    LET doc_with_term == Cardinality(DOMAIN idx[term])
    IN  Frac(MathLogMilli(1 + count, 1 + doc_with_term) + 1000, 1000)

\* term_positions[term]: the positions (from 0) of term in tokens
RECURSIVE PositionsFrom(_, _, _)
PositionsFrom(tokens, term, i) ==
    IF i > Len(tokens) THEN <<>>
    ELSE IF tokens[i] = term THEN <<i - 1>> \o PositionsFrom(tokens, term, i + 1)
    ELSE PositionsFrom(tokens, term, i + 1)

Positions(tokens, term) == PositionsFrom(tokens, term, 1)

\* TextIndexer.add_document, the body of the loop over content.items():
\* one IndexEntry per term of the field, stored at index[term][doc_id]
IndexField(idx, doc_id, field, text) ==
    LET tokens == Tokenize(text)
        doc_length == Len(tokens)
        terms == SeqRange(tokens)
        entry(term) == [doc_id |-> doc_id,
                        positions |-> Positions(tokens, term),
                        field |-> field,
                        tf |-> CalculateTf(Len(Positions(tokens, term)), doc_length)]
    IN  [t \in (DOMAIN idx) \cup terms |->
            IF t \in terms
            THEN Put(IF t \in DOMAIN idx THEN idx[t] ELSE EmptyMap, doc_id, entry(t))
            ELSE idx[t]]

RECURSIVE IndexFields(_, _, _, _)
IndexFields(idx, doc_id, content, i) ==
    IF i > Len(content) THEN idx
    ELSE IndexFields(IndexField(idx, doc_id, content[i].field, content[i].text),
                     doc_id, content, i + 1)

\* TextIndexer.remove_document, the loop over list(self.index.keys())
UnindexMutantKeepEmpty(idx, doc_id) ==
    [t \in DOMAIN idx |-> Drop(idx[t], doc_id)]

Unindex(idx, doc_id) ==
    [t \in {u \in DOMAIN idx : (DOMAIN idx[u]) \ {doc_id} # {}} |-> Drop(idx[t], doc_id)]

\* TextIndexer.search, the scoring loops: doc_id -> score, for the documents scored
RECURSIVE ScoreTerms(_, _, _, _, _, _)
ScoreTerms(idx, count, query_terms, field, i, scores) ==
    IF i > Len(query_terms) THEN scores
    ELSE LET term == query_terms[i] IN
         IF term \notin DOMAIN idx
         THEN ScoreTerms(idx, count, query_terms, field, i + 1, scores)
         ELSE LET idf == CalculateIdf(idx, count, term)
                  hit == {d \in DOMAIN idx[term] :
                             field = "None" \/ idx[term][d].field = field}
                  next == [d \in (DOMAIN scores) \cup hit |->
                             IF d \in hit
                             THEN FracAdd(IF d \in DOMAIN scores THEN scores[d] ELSE FracZero,
                                          FracMul(idx[term][d].tf, idf))
                             ELSE scores[d]]
              IN  ScoreTerms(idx, count, query_terms, field, i + 1, next)

\* self.index after TextIndexer.search: index is a defaultdict, which would
\* insert an empty posting map for a key that is read but absent; search reads
\* index[term] only under `if term in self.index`, which inserts nothing
SearchedIndexMutantInsertsKeys(idx, query) ==
    [t \in (DOMAIN idx) \cup SeqRange(Tokenize(query)) |->
        IF t \in DOMAIN idx THEN idx[t] ELSE EmptyMap]

SearchedIndex(idx, query) == idx

Scores(idx, count, query, field) ==
    ScoreTerms(idx, count, Tokenize(query), field, 1, EmptyMap)

\* how a call ends: the exception that leaves it ("none": it returns), and the
\* list it returns
Raised(name)  == [raised |-> name, results |-> <<>>]
Returned(res) == [raised |-> "none", results |-> res]

\* the orders sorted(scores.items(), key=score, reverse=True) may give: score
\* descending, equal scores in the order the dict yields them
RankedLists(scores) ==
    LET ids == DOMAIN scores
        n == Cardinality(ids)
    IN  {r \in [1..n -> ids] :
            /\ \A i, j \in 1..n : i # j => r[i] # r[j]
            /\ \A i \in 1..(n - 1) : ~FracLess(scores[r[i]], scores[r[i + 1]])}

Ranked(scores, r) == [i \in 1..Len(r) |-> [doc_id |-> r[i], score |-> scores[r[i]]]]

\* TextIndexer.search: the results it may return (self.documents[doc_id] raises
\* KeyError for a scored id that is not registered)
SearchResults(idx, docs, count, query, field) ==
    LET scores == Scores(idx, count, query, field) IN
    IF ~(DOMAIN scores \subseteq DOMAIN docs) THEN {Raised("KeyError")}
    ELSE {Returned(Ranked(scores, r)) : r \in RankedLists(scores)}

(***************************************************************************)
(* viper_logs/fuzzy_search.py                                              *)
(***************************************************************************)
\* levenshtein_distance, the inner loop over s2: one row of the table.
\* (Each LET value is used in a test before it is passed on, so that TLC
\* evaluates it there and the nesting of unevaluated arguments stays shallow.)
RECURSIVE LevRow(_, _, _, _, _)
LevRow(s2, c1, previous_row, current_row, j) ==
    IF j > Len(s2) THEN current_row
    ELSE LET insertions == previous_row[j + 1] + 1
             deletions == current_row[j] + 1
             substitutions == previous_row[j] + (IF c1 # s2[j] THEN 1 ELSE 0)
             row == Append(current_row, Min2(insertions, Min2(deletions, substitutions)))
         IN  IF Len(row) = j + 1 THEN LevRow(s2, c1, previous_row, row, j + 1) ELSE row

\* levenshtein_distance, the outer loop over s1
RECURSIVE LevRows(_, _, _, _)
LevRows(s1, s2, i, previous_row) ==
    IF i > Len(s1) THEN previous_row[Len(previous_row)]
    ELSE LET current_row == LevRow(s2, s1[i], previous_row, <<i>>, 1)
         IN  IF Len(current_row) = Len(s2) + 1 THEN LevRows(s1, s2, i + 1, current_row)
             ELSE -1

levenshtein_distance(s1, s2) ==
    LET long == IF Len(s1) < Len(s2) THEN s2 ELSE s1
        short == IF Len(s1) < Len(s2) THEN s1 ELSE s2
    IN  IF Len(short) = 0 THEN Len(long)
        ELSE LevRows(long, short, 1, [k \in 1..(Len(short) + 1) |-> k - 1])

\* FuzzySearchIndex.add_term on (term_docs, doc_terms)
AddTerm(fz, term, doc_id) ==
    LET t == Lower(term) IN
    [term_docs |-> Put(fz.term_docs, t,
                       (IF t \in DOMAIN fz.term_docs THEN fz.term_docs[t] ELSE {})
                           \cup {doc_id}),
     doc_terms |-> Put(fz.doc_terms, doc_id,
                       (IF doc_id \in DOMAIN fz.doc_terms THEN fz.doc_terms[doc_id] ELSE {})
                           \cup {t})]

RECURSIVE AddTerms(_, _, _, _)
AddTerms(fz, terms, doc_id, i) ==
    IF i > Len(terms) THEN fz
    ELSE AddTerms(AddTerm(fz, terms[i], doc_id), terms, doc_id, i + 1)

\* FuzzyTextIndexer.add_document, the loop over content.items(): the whole field
\* value, then each of its tokens
RECURSIVE FuzzyFields(_, _, _, _)
FuzzyFields(fz, doc_id, content, i) ==
    IF i > Len(content) THEN fz
    ELSE FuzzyFields(AddTerms(AddTerm(fz, content[i].text, doc_id),
                              Tokenize(content[i].text), doc_id, 1),
                     doc_id, content, i + 1)

ZeroDivisionError == [error |-> "ZeroDivisionError"]
IsError(v) == "error" \in DOMAIN v

\* similarity = 1 - (distance / max_len)
Similarity(query, indexed_term) ==
    LET distance == levenshtein_distance(query, indexed_term)
        max_len == Max2(Len(query), Len(indexed_term))
    IN  Frac(max_len - distance, max_len)

\* matching_docs[doc_id] += similarity, over the qualifying terms of one document
RECURSIVE SumSimilarity(_, _)
SumSimilarity(q, terms) ==
    IF terms = {} THEN FracZero
    ELSE LET t == CHOOSE u \in terms : TRUE
         IN  FracAdd(Similarity(q, t), SumSimilarity(q, terms \ {t}))

\* FuzzySearchIndex.search: doc_id -> summed similarity; the division raises
\* for an empty query against an empty indexed term
FuzzyIndexSearch(tdocs, query, threshold) ==
    LET q == Lower(query) IN
    IF \E t \in DOMAIN tdocs : Max2(Len(q), Len(t)) = 0 THEN ZeroDivisionError
    ELSE LET qualifying == {t \in DOMAIN tdocs : FracGeq(Similarity(q, t), threshold)}
             hit == UNION {tdocs[t] : t \in qualifying}
         IN  [d \in hit |-> SumSimilarity(q, {t \in qualifying : d \in tdocs[t]})]

\* FuzzyTextIndexer.fuzzy_search: the results it may return, or the exception
\* that leaves it
FuzzySearchResults(tdocs, docs, query, threshold) ==
    LET matching_docs == FuzzyIndexSearch(tdocs, query, threshold) IN
    IF IsError(matching_docs) THEN {Raised(matching_docs.error)}
    ELSE IF ~(DOMAIN matching_docs \subseteq DOMAIN docs) THEN {Raised("KeyError")}
    ELSE {Returned(Ranked(matching_docs, r)) : r \in RankedLists(matching_docs)}

(***************************************************************************)
(* viper_logs/boolean_search.py                                            *)
(***************************************************************************)
OpAND == <<"A","N","D">>
OpOR  == <<"O","R">>
OpNOT == <<"N","O","T">>
\* BooleanParser.operators
operators == {OpAND, OpOR, OpNOT}

\* BooleanParser._tokenize: parentheses stand alone, the rest splits on whitespace
RECURSIVE BoolTokens(_, _, _, _)
BoolTokens(s, i, cur, acc) ==
    LET flushed == IF cur = <<>> THEN acc ELSE Append(acc, cur) IN
    IF i > Len(s) THEN flushed
    ELSE IF s[i] \in {"(", ")"} THEN BoolTokens(s, i + 1, <<>>, Append(flushed, <<s[i]>>))
    ELSE IF s[i] = " " THEN BoolTokens(s, i + 1, <<>>, flushed)
    ELSE BoolTokens(s, i + 1, Append(cur, s[i]), acc)

BoolTokenize(query) == BoolTokens(query, 1, <<>>, <<>>)

NoneExpr == [kind |-> "None"]
BooleanTerm(term, is_negated) == [kind |-> "term", term |-> term, is_negated |-> is_negated]
BooleanExpressionMutantRightFirst(left, operator, right) ==
    [kind |-> "expr", left |-> right, operator |-> operator, right |-> left]

BooleanExpression(left, operator, right) ==
    [kind |-> "expr", left |-> left, operator |-> operator, right |-> right]

\* the exceptions that leave the parser and the evaluator
IndexError == [kind |-> "raised", error |-> "IndexError"]
AttributeError == [error |-> "AttributeError"]

\* what the parser pushes: True for NOT, the BooleanOperator for AND and OR
NotFlag == [bool |-> TRUE]
Operator(token) == [op |-> token]
IsBool(item) == "bool" \in DOMAIN item

\* the scan for the closing parenthesis; j counts from 0 as in the source
RECURSIVE ScanParen(_, _, _)
ScanParen(tokens, j, level) ==
    IF j < Len(tokens) /\ level > 0
    THEN ScanParen(tokens, j + 1,
                   IF tokens[j + 1] = <<"(">> THEN level + 1
                   ELSE IF tokens[j + 1] = <<")">> THEN level - 1
                   ELSE level)
    ELSE j

\* BooleanParser._parse_expression; i counts from 0 as in the source
RECURSIVE ParseFrom(_, _, _, _)
ParseFrom(tokens, i, stack, current_expr) ==
    IF ~(i < Len(tokens)) THEN current_expr
    ELSE LET token == tokens[i + 1] IN
         IF token = <<"(">>
         THEN LET j == ScanParen(tokens, i + 1, 1)
                  sub_expr == ParseFrom(SubSeq(tokens, i + 2, j - 1), 0, <<>>, NoneExpr)
              IN  IF sub_expr = IndexError THEN IndexError
                  ELSE IF current_expr = NoneExpr
                  THEN ParseFrom(tokens, j, stack, sub_expr)
                  ELSE IF stack = <<>> THEN IndexError
                  ELSE ParseFrom(tokens, j, SubSeq(stack, 1, Len(stack) - 1),
                                 BooleanExpression(current_expr, stack[Len(stack)], sub_expr))
         ELSE IF token \in operators
         THEN ParseFrom(tokens, i + 1,
                        Append(stack, IF token = OpNOT THEN NotFlag ELSE Operator(token)),
                        current_expr)
         ELSE LET negate == stack # <<>> /\ IsBool(stack[Len(stack)])
                  is_negated == negate
                  rest == IF negate THEN SubSeq(stack, 1, Len(stack) - 1) ELSE stack
                  term == BooleanTerm(Lower(token), is_negated)
              IN  IF current_expr = NoneExpr
                  THEN ParseFrom(tokens, i + 1, rest, term)
                  ELSE IF rest = <<>> THEN IndexError
                  ELSE ParseFrom(tokens, i + 1, SubSeq(rest, 1, Len(rest) - 1),
                                 BooleanExpression(current_expr, rest[Len(rest)], term))

\* BooleanParser.parse
BoolParse(query) == ParseFrom(BoolTokenize(Upper(query)), 0, <<>>, NoneExpr)

\* needle in hay
Contains(hay, needle) ==
    \E k \in 0..(Len(hay) - Len(needle)) : SubSeq(hay, k + 1, k + Len(needle)) = needle

\* _evaluate_expression on a BooleanTerm, before the negation
TermDocs(idx, term, field) ==
    {d \in UNION {DOMAIN idx[t] : t \in DOMAIN idx} :
        \E t \in DOMAIN idx :
            /\ d \in DOMAIN idx[t]
            /\ (field = "None" \/ idx[t][d].field = field)
            /\ Contains(Lower(t), Lower(term))}

\* _evaluate_expression on a BooleanTerm
EvaluateTermMutantNoNegation(idx, docs, expr, field) ==
    TermDocs(idx, expr.term, field)

EvaluateTerm(idx, docs, expr, field) ==
    IF expr.is_negated
    THEN (DOMAIN docs) \ TermDocs(idx, expr.term, field)
    ELSE TermDocs(idx, expr.term, field)

\* _evaluate_expression on a BooleanExpression whose sides are evaluated
CombineMutantAlwaysAnd(operator, left_result, right_result) ==
    left_result \cap right_result

Combine(operator, left_result, right_result) ==
    IF operator = Operator(OpAND) THEN left_result \cap right_result
    ELSE IF operator = Operator(OpOR) THEN left_result \cup right_result
    ELSE left_result

\* BooleanSearchIndexer._evaluate_expression: [docs |-> the set] or the exception
RECURSIVE Evaluate(_, _, _, _)
Evaluate(idx, docs, expr, field) ==
    IF expr.kind = "term" THEN [docs |-> EvaluateTerm(idx, docs, expr, field)]
    ELSE IF expr.kind = "None" THEN AttributeError
    ELSE LET left_result == Evaluate(idx, docs, expr.left, field) IN
         IF IsError(left_result) THEN left_result
         ELSE IF expr.operator \in {Operator(OpAND), Operator(OpOR)}
         THEN LET right_result == Evaluate(idx, docs, expr.right, field) IN
              IF IsError(right_result) THEN right_result
              ELSE [docs |-> Combine(expr.operator, left_result.docs, right_result.docs)]
         ELSE left_result


(***************************************************************************)
(* viper_logs/search.py: LogQuery and LogSearchEngine.search               *)
(*                                                                         *)
(* A stored line is either text json.loads rejects or a JSON object, kept  *)
(* as a function from the keys it has to their values.  A value carries    *)
(* its Python type; a datetime is its number of seconds since the epoch.   *)
(***************************************************************************)
PyNone      == [kind |-> "None"]
Num(n)      == [kind |-> "number", val |-> n]
Text(s)     == [kind |-> "str", val |-> s]
Datetime(t) == [kind |-> "datetime", t |-> t]

InvalidLine       == [json |-> FALSE]
RecordLine(entry) == [json |-> TRUE, entry |-> entry]

JSONDecodeError == [error |-> "JSONDecodeError"]
TypeError       == [error |-> "TypeError"]

\* json.loads(line.strip())
JsonLoads(line) == IF line.json THEN line.entry ELSE JSONDecodeError

\* the value of a string of decimal digits
RECURSIVE DigitsValue(_, _, _)
DigitsValue(str, i, acc) ==
    IF i > Len(str) THEN acc
    ELSE DigitsValue(str, i + 1, acc * 10 + (IndexOf(Digits, str[i]) - 1))

\* float(v): a number, the number a str spells, or an exception
Float(v) ==
    IF v.kind = "number" THEN Num(v.val)
    ELSE IF v.kind = "str"
         THEN IF Len(v.val) > 0 /\ \A i \in 1..Len(v.val) : v.val[i] \in SeqRange(Digits)
              THEN Num(DigitsValue(v.val, 1, 0))
              ELSE ValueError
         ELSE TypeError

\* datetime.fromtimestamp
FromTimestamp(f) == Datetime(f.val)

\* LogQuery.__init__
LogQuery ==
    [filters |-> <<>>, start_time |-> PyNone, end_time |-> PyNone,
     limit |-> PyNone, sort_order |-> "desc"]

\* LogQuery.in_timeframe: end or datetime.now()
in_timeframe(query, start, end, clock) ==
    [query EXCEPT !.start_time = start,
                  !.end_time = IF end = PyNone THEN Datetime(clock) ELSE end]

\* the closure lambda log: log[field] in values
FieldIn(field, values) == [kind |-> "in", field |-> field, values |-> values]

with_level(query, levels) ==
    [query EXCEPT !.filters = Append(@, FieldIn("level", levels))]
from_component(query, components) ==
    [query EXCEPT !.filters = Append(@, FieldIn("component", components))]
by_user(query, users) ==
    [query EXCEPT !.filters = Append(@, FieldIn("user_id", users))]

\* LogQuery.containing
containing(query, text, case_sensitive) ==
    [query EXCEPT !.filters =
        Append(@, [kind |-> "containing",
                   text |-> IF case_sensitive THEN text ELSE Lower(text),
                   case_sensitive |-> case_sensitive])]

\* query.limit = n and query.sort_order = order, set on the attribute
SetLimit(query, n)         == [query EXCEPT !.limit = Num(n)]
SetSortOrder(query, order) == [query EXCEPT !.sort_order = order]

\* one closure of query.filters on a record: "True", "False" or the exception
ApplyFilter(f, log) ==
    IF f.kind = "in"
    THEN IF f.field \notin DOMAIN log THEN "KeyError"
         ELSE IF \E v \in f.values : v.kind = log[f.field].kind /\ v = log[f.field]
              THEN "True" ELSE "False"
    ELSE LET description == IF "description" \in DOMAIN log
                            THEN log["description"] ELSE Text(<<>>)
         IN  IF description.kind # "str" THEN "False"
             ELSE IF Contains(IF f.case_sensitive THEN description.val
                              ELSE Lower(description.val), f.text)
                  THEN "True" ELSE "False"

\* all(f(log_entry) for f in query.filters), which stops at the first False
RECURSIVE AllFilters(_, _, _)
AllFilters(filters, log, i) ==
    IF i > Len(filters) THEN "True"
    ELSE LET r == ApplyFilter(filters[i], log) IN
         IF r = "True" THEN AllFilters(filters, log, i + 1) ELSE r

\* the time bounds on one record: "pass", "continue" (the record is skipped) or
\* the exception that leaves the scan
TimeFilterMutantNoEndBound(query, log_entry) ==
    IF query.start_time = PyNone /\ query.end_time = PyNone THEN "pass"
    ELSE IF "timestamp" \notin DOMAIN log_entry THEN "KeyError"
    ELSE LET f == Float(log_entry["timestamp"]) IN
         IF IsError(f) THEN "continue"
         ELSE IF query.start_time # PyNone /\ FromTimestamp(f).t < query.start_time.t
              THEN "continue"
              ELSE "pass"

TimeFilter(query, log_entry) ==
    IF query.start_time = PyNone /\ query.end_time = PyNone THEN "pass"
    ELSE IF "timestamp" \notin DOMAIN log_entry THEN "KeyError"
    ELSE LET f == Float(log_entry["timestamp"]) IN
         IF IsError(f) THEN "continue"
         ELSE LET log_time == FromTimestamp(f) IN
              IF query.start_time # PyNone /\ log_time.t < query.start_time.t
              THEN "continue"
              ELSE IF query.end_time # PyNone /\ log_time.t > query.end_time.t
                   THEN "continue"
                   ELSE "pass"

\* LogSearchEngine.search, the loop over the lines: the survivors in file
\* order, or the exception no handler of the loop catches
RECURSIVE ScanLines(_, _, _, _)
ScanLines(lines, query, i, results) ==
    IF i > Len(lines) THEN Returned(results)
    ELSE LET log_entry == JsonLoads(lines[i]) IN
         IF IsError(log_entry) THEN ScanLines(lines, query, i + 1, results)
         ELSE LET in_time == TimeFilter(query, log_entry) IN
              IF in_time = "KeyError" THEN Raised("KeyError")
              ELSE IF in_time = "continue" THEN ScanLines(lines, query, i + 1, results)
              ELSE LET matches == AllFilters(query.filters, log_entry, 1) IN
                   IF matches = "KeyError" THEN Raised("KeyError")
                   ELSE ScanLines(lines, query, i + 1,
                                  IF matches = "True" THEN Append(results, log_entry)
                                  ELSE results)

\* key=lambda x: float(x.get("timestamp", 0))
SortKey(entry) == Float(IF "timestamp" \in DOMAIN entry THEN entry["timestamp"] ELSE Num(0))

\* where list.sort puts entry among the records sorted so far: behind every record
\* it does not have to precede (the sort is stable, reversed or not)
RECURSIVE InsertAt(_, _, _, _)
InsertAt(sorted, entry, reverse, i) ==
    IF i > Len(sorted) THEN i
    ELSE IF (IF reverse THEN SortKey(sorted[i]).val < SortKey(entry).val
             ELSE SortKey(sorted[i]).val > SortKey(entry).val)
         THEN i
         ELSE InsertAt(sorted, entry, reverse, i + 1)

RECURSIVE SortFrom(_, _, _, _)
SortFrom(results, reverse, i, sorted) ==
    IF i > Len(results) THEN sorted
    ELSE LET at == InsertAt(sorted, results[i], reverse, 1) IN
         SortFrom(results, reverse, i + 1,
                  SubSeq(sorted, 1, at - 1) \o <<results[i]>> \o SubSeq(sorted, at, Len(sorted)))

\* results.sort(...) inside try/except (TypeError, ValueError): pass; a key that
\* raises leaves the list as it was
Sort(results, sort_order) ==
    IF \E i \in 1..Len(results) : IsError(SortKey(results[i])) THEN results
    ELSE SortFrom(results, sort_order = "desc", 1, <<>>)

\* if query.limit: results = results[:query.limit]
ApplyLimit(results, limit) ==
    IF limit.kind = "number" /\ limit.val # 0
    THEN SubSeq(results, 1, Min2(limit.val, Len(results)))
    ELSE results

\* LogSearchEngine.search
LogSearch(lines, query) ==
    LET scanned == ScanLines(lines, query, 1, <<>>) IN
    IF scanned.raised # "none" THEN scanned
    ELSE Returned(ApplyLimit(Sort(scanned.results, query.sort_order), query.limit))

(***************************************************************************)
(* viper_logs/logger.py and viper_logs/storage.py: AdvancedLogger.log, the *)
(* reload of the indexers and the retention of LogStorage.                 *)
(*                                                                         *)
(* An indexer is the record of the fields of one FuzzyTextIndexer.  The    *)
(* log file is the sequence of its lines; cleanup_old_logs unlinks it as a *)
(* whole.                                                                  *)
(***************************************************************************)
LEVELS == << <<"D","E","B","U","G">>, <<"I","N","F","O">>, <<"W","A","R","N">>,
             <<"E","R","R","O","R">>, <<"F","A","T","A","L">> >>
\* config["default_level"]
log_level == <<"I","N","F","O">>
\* config["retention_days"], a configured number (30 unless the configuration
\* file sets it): the model takes the shortest retention, under which
\* cleanup_old_logs unlinks every file last written before now
retention_days == 0

\* AdvancedLogger._should_log and the test level in self.LEVELS
ShouldLog(level) ==
    /\ level \in SeqRange(LEVELS)
    /\ IndexOf(LEVELS, level) >= IndexOf(LEVELS, log_level)

\* FuzzyTextIndexer.add_document on the fields of an indexer
AddTo(indexer, doc_id, content) ==
    LET fz == FuzzyFields([term_docs |-> indexer.term_docs,
                           doc_terms |-> indexer.doc_terms], doc_id, content, 1)
    IN  [index |-> IndexFields(indexer.index, doc_id, content, 1),
         documents |-> Put(indexer.documents, doc_id, content),
         doc_count |-> indexer.doc_count + 1,
         term_docs |-> fz.term_docs,
         doc_terms |-> fz.doc_terms]

\* log_data, the fields the engines read
LogData(log_id, timestamp, level, user_id, action, description, component) ==
    [id |-> Text(log_id), timestamp |-> Num(timestamp), level |-> Text(level),
     user_id |-> Text(user_id), action |-> Text(action),
     description |-> Text(description), component |-> Text(component)]

\* search_content of AdvancedLogger.log
SearchContent(log_data) ==
    <<[field |-> "level", text |-> log_data["level"].val],
      [field |-> "action", text |-> log_data["action"].val],
      [field |-> "description", text |-> log_data["description"].val],
      [field |-> "component", text |-> log_data["component"].val]>>

\* LogStorage.write_log: the line appended to the current file
WriteLogMutantDropsLine(lines, log_data) == lines

WriteLog(lines, log_data) == Append(lines, RecordLine(log_data))

\* the documents AdvancedLogger._index_log registers
FuzzyContent(log_data) ==
    <<[field |-> "description", text |-> log_data["description"].val],
      [field |-> "action", text |-> log_data["action"].val],
      [field |-> "component", text |-> log_data["component"].val],
      [field |-> "level", text |-> log_data["level"].val]>>
BooleanContent(log_data) ==
    <<[field |-> "description", text |-> log_data["description"].val],
      [field |-> "level", text |-> log_data["level"].val],
      [field |-> "component", text |-> log_data["component"].val]>>

\* AdvancedLogger._load_existing_logs_into_indexers: the two indexers after
\* the loop over storage.iter_logs(), which skips the lines json.loads rejects;
\* a record that lacks a field _index_log reads ends the loop (the KeyError is
\* caught around it)
RECURSIVE LoadExisting(_, _, _, _)
LoadExisting(lines, i, fuzzy, boolean) ==
    IF i > Len(lines) THEN [fuzzy_indexer |-> fuzzy, boolean_indexer |-> boolean]
    ELSE LET log == JsonLoads(lines[i]) IN
         IF IsError(log) \/ "id" \notin DOMAIN log
         THEN LoadExisting(lines, i + 1, fuzzy, boolean)
         ELSE IF ~({"description", "action", "component", "level"} \subseteq DOMAIN log)
              THEN [fuzzy_indexer |-> fuzzy, boolean_indexer |-> boolean]
              ELSE LoadExisting(lines, i + 1,
                                AddTo(fuzzy, log["id"].val, FuzzyContent(log)),
                                AddTo(boolean, log["id"].val, BooleanContent(log)))

(***************************************************************************)
(* Inputs of the model                                                     *)
(***************************************************************************)
\* timestamps around the digit boundaries of the rendering
CodecTimestamps == {0, 1, 31, 32, 1024}
\* randomness around the digit boundaries and at the top of the range
CodecRandoms == {RandZero, RandOf(1), RandOf(31), RandOf(32), RandOf(33), RandOf(1024),
                 [RANDOM_MAX EXCEPT ![RANDOM_LEN] = 30], RANDOM_MAX}
CodecUlids == {ULID(t, r) : t \in CodecTimestamps, r \in CodecRandoms}

NoText == <<>>
NoCall == [op |-> "none"]
NoUlid == [none |-> TRUE]

\* the documents and queries of the index model
DocIds == {"d1", "d2"}
Fields == {"level", "action", "description"}
NoField == "None"
SearchFields == {NoField, "level", "description"}
BoolFields == {NoField, "level"}

T_ERROR  == <<"E","R","R","O","R">>
T_INFO   == <<"I","N","F","O">>
T_empty  == <<>>
T_login  == <<"l","o","g","i","n">>
T_logout == <<"l","o","g","o","u","t">>
T_failed == <<"f","a","i","l","e","d">>
T_error  == <<"e","r","r","o","r">>
T_ok     == <<"o","k">>
T_le     == <<"l","e">>
T_logn   == <<"l","o","g","n">>

RECURSIVE JoinSpace(_)
JoinSpace(words) ==
    IF words = <<>> THEN <<>>
    ELSE IF Len(words) = 1 THEN words[1]
    ELSE words[1] \o <<" ">> \o JoinSpace(Tail(words))

FieldOf(field, text) == [field |-> field, text |-> text]

\* a dict literal is the sequence of its items, in insertion order
ContentA == <<FieldOf("level", T_ERROR), FieldOf("description", JoinSpace(<<T_login, T_failed>>))>>
ContentB == <<FieldOf("level", T_INFO), FieldOf("description", JoinSpace(<<T_login, T_ok>>))>>
ContentC == <<FieldOf("level", T_ERROR), FieldOf("action", T_empty),
              FieldOf("description", JoinSpace(<<T_le, T_logout, T_error>>))>>
Contents == {ContentA, ContentB, ContentC}

SearchQueries == {T_failed, T_login, T_empty, T_le, JoinSpace(<<T_logout, T_ERROR>>)}

Thresholds == {FracZero, Frac(7, 10), FracOne}
FuzzyQueries == {T_empty, T_login, Upper(T_login), T_logn, T_error,
                 JoinSpace(<<T_login, T_ok>>)}

BoolWords == {T_ERROR, T_login, T_logout}
BoolQueries ==
    BoolWords
    \cup {JoinSpace(<<OpNOT, w>>) : w \in BoolWords}
    \cup {JoinSpace(<<a, o, b>>) : a \in BoolWords, o \in {OpAND, OpOR}, b \in BoolWords}
    \cup {JoinSpace(<<a, OpAND, OpNOT, b>>) : a \in BoolWords, b \in BoolWords}
    \cup {T_empty,
          JoinSpace(<<T_login, T_logout>>),
          JoinSpace(<<T_login, Lower(OpAND), <<"(">>, T_ERROR>>),
          <<"(">> \o JoinSpace(<<T_login, OpOR, T_logout>>) \o <<")">> \o <<" ">>
              \o JoinSpace(<<OpAND, T_ERROR>>)}

MaxDocCount == 2

\* queries for terms that are, were or never were keys of the index
KeyQueries == {T_failed, T_logn, JoinSpace(<<T_login, OpAND, T_ok>>)}

\* BooleanParser.parse on the queries of the model, each parsed once: the
\* parse of a query depends on nothing but the query
ParsedQueries == [query \in BoolQueries \cup KeyQueries |-> BoolParse(query)]
ParsedQuery(query) ==
    IF query \in DOMAIN ParsedQueries THEN ParsedQueries[query] ELSE BoolParse(query)

\* BooleanSearchIndexer.boolean_search: no exception leaves it; ids are the
\* doc_ids of the list it returns (in the order the set yields them) and caught
\* is the exception it caught and printed, if any
Caught(name) == [raised |-> "none", ids |-> {}, caught |-> name]

BooleanSearch(idx, docs, query, field) ==
    LET expression == ParsedQuery(query) IN
    IF expression = IndexError THEN Caught("IndexError")
    ELSE LET matching_docs == Evaluate(idx, docs, expression, field) IN
         IF IsError(matching_docs) THEN Caught(matching_docs.error)
         ELSE IF ~(matching_docs.docs \subseteq DOMAIN docs) THEN Caught("KeyError")
         ELSE [raised |-> "none", ids |-> matching_docs.docs, caught |-> "none"]

\* documents that differ by one occurrence of a term, and the queries on them
ContentLoginTwice == <<FieldOf("level", T_ERROR),
                       FieldOf("description", JoinSpace(<<T_login, T_login, T_failed>>))>>
ContentErrorTwice == <<FieldOf("level", T_ERROR),
                       FieldOf("description", JoinSpace(<<T_login, T_failed, T_error>>))>>
RankContents == {ContentA, ContentB, ContentLoginTwice, ContentErrorTwice}
RankQueries == {T_login, T_error, JoinSpace(<<T_login, T_failed>>)}

\* the stored lines and the queries of the filter-scan model
T_auth == <<"a", "u", "t", "h">>
T_u1   == <<"u", "1">>
T_u2   == <<"u", "2">>

R1 == RecordLine([timestamp |-> Num(1), level |-> Text(T_ERROR), component |-> Text(T_auth),
                  user_id |-> Text(T_u1),
                  description |-> Text(JoinSpace(<<T_login, T_failed>>))])
R2 == RecordLine([timestamp |-> Num(2), level |-> Text(T_INFO), component |-> Text(T_auth),
                  user_id |-> Text(T_u2),
                  description |-> Text(JoinSpace(<<T_login, T_ok>>))])
\* a timestamp stored as a string of digits
R3 == RecordLine([timestamp |-> Text(<<"3">>), level |-> Text(T_ERROR),
                  component |-> Text(T_auth), user_id |-> Text(T_u1),
                  description |-> Text(T_logout)])
\* records that lack level, component and user_id, or timestamp
RNoLevel     == RecordLine([timestamp |-> Num(2), description |-> Text(T_login)])
RNoTimestamp == RecordLine([level |-> Text(T_ERROR), component |-> Text(T_auth),
                            user_id |-> Text(T_u1),
                            description |-> Text(JoinSpace(<<T_login, T_failed>>))])
\* a timestamp that is no number
RBadTimestamp == RecordLine([timestamp |-> Text(<<"x">>), level |-> Text(T_ERROR),
                             component |-> Text(T_auth), user_id |-> Text(T_u1),
                             description |-> Text(T_login)])
StoredLines == {R1, R2, R3, RNoLevel, RNoTimestamp, RBadTimestamp, InvalidLine}

ScanFilters ==
    {LogQuery,
     with_level(LogQuery, {Text(T_ERROR)}),
     by_user(containing(LogQuery, Upper(T_login), FALSE), {Text(T_u1)}),
     containing(from_component(LogQuery, {Text(T_auth)}), T_login, TRUE)}
ScanLimits == {PyNone, Num(0), Num(1), Num(2)}
ScanOrders == {"desc", "asc"}
NoTimeframe == [start |-> PyNone, end |-> PyNone]
ScanTimeframes ==
    {NoTimeframe,
     [start |-> Datetime(1), end |-> Datetime(2)],
     [start |-> Datetime(1), end |-> PyNone]}

MaxLines == 3

\* the records AdvancedLogger.log is given, and a file an earlier run left
\* (written at time 0; the logger starts at time 1)
T_DEBUG == <<"D","E","B","U","G">>
LogLevels == {T_ERROR, T_DEBUG}
OldRecord == RecordLine(LogData(Str(ULID(0, RandOf(1))), 0, T_INFO, T_u2, T_logout,
                                JoinSpace(<<T_login, T_ok>>), T_auth))
OldFiles == {<<>>, <<OldRecord>>, <<InvalidLine, OldRecord>>}
MaxLogged == 2

NumThreads == 2
MaxClock   == 2
MaxIssued  == 3
MaxSpins   == 2
Threads    == 1..NumThreads
NoThread   == 0
\* what os.urandom(10) may return
UrandomDraws == {RandZero, RandOf(31), RANDOM_MAX}

(***************************************************************************)
(* SpecCodec: str(x), str(y) and ULID.from_str(str(x))                     *)
(***************************************************************************)
CodecIdle ==
    /\ x = NoUlid /\ y = NoUlid /\ sx = NoText /\ sy = NoText /\ px = NoUlid
    /\ phase = "off"

MonoAtRest ==
    /\ lock = NoThread
    /\ pc = [t \in Threads |-> "idle"]
    /\ ts = [t \in Threads |-> 0]
    /\ rnd = [t \in Threads |-> RandZero]
    /\ last_timestamp = 0 /\ last_randomness = RandZero
    /\ issued = <<>>
    /\ spins = [t \in Threads |-> 0]

MonoIdle == now = 0 /\ MonoAtRest

IndexIdle ==
    /\ index = <<>> /\ documents = <<>> /\ doc_count = 0
    /\ term_docs = <<>> /\ doc_terms = <<>>
    /\ removed = {} /\ last = NoCall

ScanIdle == storage = <<>>

\* FuzzyTextIndexer.__init__
NewIndexer ==
    [index |-> <<>>, documents |-> <<>>, doc_count |-> 0,
     term_docs |-> <<>>, doc_terms |-> <<>>]

LoggerIdle == fuzzy_indexer = NewIndexer /\ mtime = 0

\* no call of BooleanParser.parse is in progress
NotParsed == [kind |-> "idle"]
ParserIdle == parse_query = NoText /\ frames = <<>> /\ parsed = NotParsed

\* no LogQuery has been built
NoQuery == [timeframe |-> "none"]
QueryIdle == built = NoQuery

CodecInit ==
    /\ x \in CodecUlids /\ y \in CodecUlids
    /\ sx = NoText /\ sy = NoText /\ px = NoUlid
    /\ phase = "new"
    /\ MonoIdle /\ IndexIdle /\ ScanIdle /\ LoggerIdle /\ ParserIdle /\ QueryIdle

Render ==
    /\ phase = "new"
    /\ sx' = Str(x) /\ sy' = Str(y)
    /\ phase' = "rendered"
    /\ UNCHANGED <<x, y, px, monoVars, indexVars, scanVars, loggerVars, parserVars, queryVars>>

Parse ==
    /\ phase = "rendered"
    /\ px' = FromStr(sx)
    /\ phase' = "parsed"
    /\ UNCHANGED <<x, y, sx, sy, monoVars, indexVars, scanVars, loggerVars, parserVars, queryVars>>

CodecNext == Render \/ Parse

SpecCodec == CodecInit /\ [][CodecNext]_vars

(***************************************************************************)
(* SpecMono: ULID.generate_monotonic called by Threads                     *)
(***************************************************************************)
MonoInit == MonoIdle /\ CodecIdle /\ IndexIdle /\ ScanIdle /\ LoggerIdle /\ ParserIdle /\ QueryIdle

\* time.time() moves on
Tick ==
    /\ now < MaxClock
    /\ now' = now + 1
    /\ UNCHANGED <<lock, pc, ts, rnd, last_timestamp, last_randomness, issued, spins,
                   codecVars, indexVars, scanVars, loggerVars, parserVars, queryVars>>

\* with cls._lock:
AcquireMutantNoLock(t) ==
    /\ pc[t] = "idle"
    /\ Len(issued) + Cardinality({u \in Threads : pc[u] # "idle"}) < MaxIssued
    /\ lock' = t
    /\ pc' = [pc EXCEPT ![t] = "read"]
    /\ UNCHANGED <<now, ts, rnd, last_timestamp, last_randomness, issued, spins,
                   codecVars, indexVars, scanVars, loggerVars, parserVars, queryVars>>

Acquire(t) ==
    /\ pc[t] = "idle" /\ lock = NoThread
    /\ Len(issued) + Cardinality({u \in Threads : pc[u] # "idle"}) < MaxIssued
    /\ lock' = t
    /\ pc' = [pc EXCEPT ![t] = "read"]
    /\ UNCHANGED <<now, ts, rnd, last_timestamp, last_randomness, issued, spins,
                   codecVars, indexVars, scanVars, loggerVars, parserVars, queryVars>>

\* timestamp_ms = int(time.time() * 1000) and the choice of randomness
ReadClockMutantRedraws(t) ==
    /\ pc[t] = "read"
    /\ ts' = [ts EXCEPT ![t] = now]
    /\ \E r \in UrandomDraws : rnd' = [rnd EXCEPT ![t] = r]
    /\ pc' = [pc EXCEPT ![t] = "store"]
    /\ UNCHANGED <<now, lock, last_timestamp, last_randomness, issued, spins,
                   codecVars, indexVars, scanVars, loggerVars, parserVars, queryVars>>

ReadClock(t) ==
    /\ pc[t] = "read"
    /\ ts' = [ts EXCEPT ![t] = now]
    /\ \/ /\ now = last_timestamp /\ last_randomness = RANDOM_MAX
          /\ pc' = [pc EXCEPT ![t] = "spin"]
          /\ rnd' = rnd
       \/ /\ now = last_timestamp /\ last_randomness # RANDOM_MAX
          /\ rnd' = [rnd EXCEPT ![t] = RandInc(last_randomness)]
          /\ pc' = [pc EXCEPT ![t] = "store"]
       \/ /\ now # last_timestamp
          /\ \E r \in UrandomDraws : rnd' = [rnd EXCEPT ![t] = r]
          /\ pc' = [pc EXCEPT ![t] = "store"]
    /\ UNCHANGED <<now, lock, last_timestamp, last_randomness, issued, spins,
                   codecVars, indexVars, scanVars, loggerVars, parserVars, queryVars>>

\* while timestamp_ms == cls._last_timestamp: timestamp_ms = int(time.time() * 1000)
Spin(t) ==
    /\ pc[t] = "spin"
    /\ ts' = [ts EXCEPT ![t] = now]
    /\ \/ /\ now = last_timestamp
          /\ spins[t] < MaxSpins
          /\ spins' = [spins EXCEPT ![t] = @ + 1]
          /\ pc' = pc /\ rnd' = rnd
       \/ /\ now # last_timestamp
          /\ \E r \in UrandomDraws : rnd' = [rnd EXCEPT ![t] = r]
          /\ pc' = [pc EXCEPT ![t] = "store"]
          /\ spins' = spins
    /\ UNCHANGED <<now, lock, last_timestamp, last_randomness, issued,
                   codecVars, indexVars, scanVars, loggerVars, parserVars, queryVars>>

\* the write-back, return cls(timestamp_ms, randomness) and the lock's release
Store(t) ==
    /\ pc[t] = "store"
    /\ last_timestamp' = ts[t]
    /\ last_randomness' = rnd[t]
    /\ issued' = Append(issued, ULID(ts[t], rnd[t]))
    /\ lock' = NoThread
    /\ pc' = [pc EXCEPT ![t] = "idle"]
    /\ spins' = [spins EXCEPT ![t] = 0]
    /\ UNCHANGED <<now, ts, rnd, codecVars, indexVars, scanVars, loggerVars, parserVars, queryVars>>

MonoNext ==
    \/ Tick
    \/ \E t \in Threads : Acquire(t)
    \/ \E t \in Threads : ReadClock(t)
    \/ \E t \in Threads : Spin(t)
    \/ \E t \in Threads : Store(t)

SpecMono == MonoInit /\ [][MonoNext]_vars

\* The threads are operating system threads, scheduled preemptively: a thread
\* that can take its next step takes it in the end, and time passes.
SpecMonoFair ==
    /\ SpecMono
    /\ WF_vars(Tick)
    /\ \A t \in Threads :
          WF_vars(ReadClock(t)) /\ WF_vars(Spin(t)) /\ WF_vars(Store(t))

(***************************************************************************)
(* SpecIndex: one BooleanSearchIndexer (a FuzzyTextIndexer, a TextIndexer) *)
(***************************************************************************)
IndexInit == IndexIdle /\ CodecIdle /\ MonoIdle /\ ScanIdle /\ LoggerIdle /\ ParserIdle /\ QueryIdle

\* FuzzyTextIndexer.add_document (inherited by BooleanSearchIndexer):
\* TextIndexer.add_document, then the registration of the fuzzy candidates
AddDocument(doc_id, content) ==
    /\ last = NoCall
    /\ doc_count < MaxDocCount
    /\ documents' = Put(documents, doc_id, content)
    /\ doc_count' = doc_count + 1
    /\ index' = IndexFields(index, doc_id, content, 1)
    /\ LET fz == FuzzyFields([term_docs |-> term_docs, doc_terms |-> doc_terms],
                             doc_id, content, 1)
       IN  term_docs' = fz.term_docs /\ doc_terms' = fz.doc_terms
    /\ removed' = removed \ {doc_id}
    /\ UNCHANGED last
    /\ UNCHANGED <<codecVars, monoVars, scanVars, loggerVars, parserVars, queryVars>>

\* TextIndexer.remove_document (no class below it overrides it)
RemoveDocument(doc_id) ==
    /\ last = NoCall
    /\ IF doc_id \in DOMAIN documents
       THEN /\ index' = Unindex(index, doc_id)
            /\ documents' = Drop(documents, doc_id)
            /\ doc_count' = doc_count - 1
       ELSE UNCHANGED <<index, documents, doc_count>>
    /\ removed' = removed \cup {doc_id}
    /\ UNCHANGED <<term_docs, doc_terms, last, codecVars, monoVars, scanVars, loggerVars, parserVars, queryVars>>

\* TextIndexer.search
Search(query, field) ==
    /\ last = NoCall
    /\ \E out \in SearchResults(index, documents, doc_count, query, field) :
          last' = [op |-> "search", query |-> query, field |-> field, out |-> out]
    /\ index' = SearchedIndex(index, query)
    /\ UNCHANGED <<documents, doc_count, term_docs, doc_terms, removed,
                   codecVars, monoVars, scanVars, loggerVars, parserVars, queryVars>>

\* FuzzyTextIndexer.fuzzy_search
FuzzySearch(query, threshold) ==
    /\ last = NoCall
    /\ \E out \in FuzzySearchResults(term_docs, documents, query, threshold) :
          last' = [op |-> "fuzzy_search", query |-> query, threshold |-> threshold,
                   out |-> out]
    /\ UNCHANGED <<index, documents, doc_count, term_docs, doc_terms, removed,
                   codecVars, monoVars, scanVars, loggerVars, parserVars, queryVars>>

\* BooleanSearchIndexer.boolean_search
BooleanSearchCall(query, field) ==
    /\ last = NoCall
    /\ last' = [op |-> "boolean_search", query |-> query, field |-> field,
                out |-> BooleanSearch(index, documents, query, field)]
    /\ UNCHANGED <<index, documents, doc_count, term_docs, doc_terms, removed,
                   codecVars, monoVars, scanVars, loggerVars, parserVars, queryVars>>

\* the caller takes the result of its search
Return ==
    /\ last # NoCall
    /\ last' = NoCall
    /\ UNCHANGED <<index, documents, doc_count, term_docs, doc_terms, removed,
                   codecVars, monoVars, scanVars, loggerVars, parserVars, queryVars>>

IndexNext ==
    \/ \E d \in DocIds, c \in Contents : AddDocument(d, c)
    \/ \E d \in DocIds : RemoveDocument(d)
    \/ \E q \in SearchQueries, f \in SearchFields : Search(q, f)
    \/ Return

FuzzyNext ==
    \/ \E d \in DocIds, c \in Contents : AddDocument(d, c)
    \/ \E d \in DocIds : RemoveDocument(d)
    \/ \E q \in FuzzyQueries, t \in Thresholds : FuzzySearch(q, t)
    \/ Return

BoolNext ==
    \/ \E d \in DocIds, c \in Contents : AddDocument(d, c)
    \/ \E d \in DocIds : RemoveDocument(d)
    \/ \E q \in BoolQueries, f \in BoolFields : BooleanSearchCall(q, f)
    \/ Return

\* the calls that read or write the keys of the inverted index
KeysNext ==
    \/ \E d \in DocIds, c \in Contents : AddDocument(d, c)
    \/ \E d \in DocIds : RemoveDocument(d)
    \/ \E q \in KeyQueries, f \in BoolFields : Search(q, f)
    \/ \E q \in KeyQueries, f \in BoolFields : BooleanSearchCall(q, f)
    \/ Return

SpecKeys == IndexInit /\ [][KeysNext]_vars

\* the ranked engine over documents that repeat a term
RankNext ==
    \/ \E d \in DocIds, c \in RankContents : AddDocument(d, c)
    \/ \E d \in DocIds : RemoveDocument(d)
    \/ \E q \in RankQueries, f \in SearchFields : Search(q, f)
    \/ Return

SpecRank == IndexInit /\ [][RankNext]_vars

\* the ranked, the fuzzy and the boolean engine, each over the same registrations
SpecIndex == IndexInit /\ [][IndexNext]_vars
SpecFuzzy == IndexInit /\ [][FuzzyNext]_vars
SpecBool  == IndexInit /\ [][BoolNext]_vars

(***************************************************************************)
(* SpecScan: LogSearchEngine.search over the lines of the log files        *)
(***************************************************************************)
ScanInit ==
    /\ CodecIdle /\ IndexIdle /\ ScanIdle /\ LoggerIdle /\ ParserIdle /\ QueryIdle
    /\ MonoAtRest /\ now \in {0, MaxClock}

\* a line reaches a log file
AppendLine(line) ==
    /\ last = NoCall
    /\ Len(storage) < MaxLines
    /\ storage' = Append(storage, line)
    /\ UNCHANGED <<codecVars, monoVars, indexVars, loggerVars, parserVars, queryVars>>

\* a query is built and executed: LogQuery.execute, LogSearchEngine.search
FilterScan(filters, timeframe, limit, order) ==
    /\ last = NoCall
    /\ LET base  == SetSortOrder(IF limit = PyNone THEN filters
                                  ELSE SetLimit(filters, limit.val), order)
           query == IF timeframe = NoTimeframe THEN base
                    ELSE in_timeframe(base, timeframe.start, timeframe.end, now)
       IN  last' = [op |-> "filter_scan", query |-> query,
                    out |-> LogSearch(storage, query)]
    /\ UNCHANGED <<index, documents, doc_count, term_docs, doc_terms, removed,
                   codecVars, monoVars, scanVars, loggerVars, parserVars, queryVars>>

ScanNext ==
    \/ \E line \in StoredLines : AppendLine(line)
    \/ \E f \in ScanFilters, t \in ScanTimeframes, n \in ScanLimits, o \in ScanOrders :
          FilterScan(f, t, n, o)
    \/ Return

SpecScan == ScanInit /\ [][ScanNext]_vars

(***************************************************************************)
(* A LogQuery that is built first and executed later, while the logger     *)
(* goes on writing records                                                 *)
(***************************************************************************)
\* the record AdvancedLogger.log persists at clock t: "timestamp": time.time()
RecordAt(t, level) ==
    RecordLine([timestamp |-> Num(t), level |-> Text(level), component |-> Text(T_auth),
                user_id |-> Text(T_u1),
                description |-> Text(JoinSpace(<<T_login, T_failed>>))])

FreshLevels == {T_ERROR, T_INFO}
FreshFilters == {LogQuery, with_level(LogQuery, {Text(T_ERROR)})}
FreshTimeframes ==
    {NoTimeframe,
     [start |-> Datetime(0), end |-> PyNone],
     [start |-> Datetime(1), end |-> PyNone],
     [start |-> Datetime(0), end |-> Datetime(1)]}

FreshInit ==
    /\ CodecIdle /\ MonoIdle /\ IndexIdle /\ ScanIdle /\ LoggerIdle /\ ParserIdle
    /\ QueryIdle

\* a record is persisted
WriteRecord(level) ==
    /\ last = NoCall
    /\ Len(storage) < MaxLines
    /\ storage' = Append(storage, RecordAt(now, level))
    /\ UNCHANGED <<codecVars, monoVars, indexVars, loggerVars, parserVars, queryVars>>

\* engine.create_query() and the builder calls on it; timeframe is kept with
\* the query to tell which end the caller gave
BuildQuery(filters, timeframe) ==
    /\ last = NoCall
    /\ built = NoQuery
    /\ built' = [timeframe |-> timeframe,
                 query |-> IF timeframe = NoTimeframe THEN filters
                           ELSE in_timeframe(filters, timeframe.start, timeframe.end, now)]
    /\ UNCHANGED <<codecVars, monoVars, indexVars, scanVars, loggerVars, parserVars>>

\* await query.execute(): LogSearchEngine.search(query)
Execute ==
    /\ last = NoCall
    /\ built # NoQuery
    /\ last' = [op |-> "execute", query |-> built.query,
                out |-> LogSearch(storage, built.query)]
    /\ UNCHANGED <<index, documents, doc_count, term_docs, doc_terms, removed,
                   codecVars, monoVars, scanVars, loggerVars, parserVars, queryVars>>

\* the caller drops the query it built
DropQuery ==
    /\ last = NoCall
    /\ built # NoQuery
    /\ built' = NoQuery
    /\ UNCHANGED <<codecVars, monoVars, indexVars, scanVars, loggerVars, parserVars>>

FreshNext ==
    \/ Tick
    \/ \E level \in FreshLevels : WriteRecord(level)
    \/ \E f \in FreshFilters, t \in FreshTimeframes : BuildQuery(f, t)
    \/ Execute
    \/ DropQuery
    \/ Return

SpecFresh == FreshInit /\ [][FreshNext]_vars

(***************************************************************************)
(* SpecLogger: one AdvancedLogger, its storage and its two indexers        *)
(***************************************************************************)
LoggerInit ==
    /\ CodecIdle /\ MonoAtRest /\ IndexIdle /\ LoggerIdle /\ ParserIdle /\ QueryIdle
    /\ now = 1
    /\ storage \in OldFiles

\* AdvancedLogger.log: randomness is what os.urandom gives ULID.generate,
\* written tells whether storage.write_log returns (it re-raises what
\* json.dumps or the file raise, and log then returns None)
Log(level, user_id, action, description, component, randomness, written) ==
    /\ last = NoCall
    /\ doc_count < MaxLogged
    /\ IF ~ShouldLog(level) \/ ~written
       THEN /\ last' = [op |-> "log", out |-> PyNone]
            /\ UNCHANGED <<index, documents, doc_count, term_docs, doc_terms,
                           storage, fuzzy_indexer, mtime, parserVars, queryVars>>
       ELSE LET log_id == Str(ULID(now, randomness))
                log_data == LogData(log_id, now, level, user_id, action,
                                    description, component)
                search_content == SearchContent(log_data)
                boolean_indexer ==
                    AddTo([index |-> index, documents |-> documents,
                           doc_count |-> doc_count, term_docs |-> term_docs,
                           doc_terms |-> doc_terms], log_id, search_content)
            IN  /\ storage' = WriteLog(storage, log_data)
                /\ mtime' = now
                /\ fuzzy_indexer' = AddTo(fuzzy_indexer, log_id, search_content)
                /\ index' = boolean_indexer.index
                /\ documents' = boolean_indexer.documents
                /\ doc_count' = boolean_indexer.doc_count
                /\ term_docs' = boolean_indexer.term_docs
                /\ doc_terms' = boolean_indexer.doc_terms
                /\ last' = [op |-> "log", out |-> Text(log_id)]
    /\ UNCHANGED <<removed, codecVars, monoVars, parserVars, queryVars>>

\* AdvancedLogger._load_existing_logs_into_indexers
LoadExistingLogs ==
    /\ last = NoCall
    /\ doc_count + Len(storage) <= MaxLogged
    /\ LET loaded == LoadExisting(storage, 1, fuzzy_indexer,
                                  [index |-> index, documents |-> documents,
                                   doc_count |-> doc_count, term_docs |-> term_docs,
                                   doc_terms |-> doc_terms])
       IN  /\ fuzzy_indexer' = loaded.fuzzy_indexer
           /\ index' = loaded.boolean_indexer.index
           /\ documents' = loaded.boolean_indexer.documents
           /\ doc_count' = loaded.boolean_indexer.doc_count
           /\ term_docs' = loaded.boolean_indexer.term_docs
           /\ doc_terms' = loaded.boolean_indexer.doc_terms
    /\ UNCHANGED <<removed, last, mtime, codecVars, monoVars, scanVars, parserVars, queryVars>>

\* LogStorage.cleanup_old_logs (AdvancedLogger._periodic_cleanup and close):
\* the file last written before the cutoff is unlinked
CleanupOldLogs ==
    /\ last = NoCall
    /\ storage' = IF mtime < now - retention_days THEN <<>> ELSE storage
    /\ UNCHANGED <<mtime, fuzzy_indexer, codecVars, monoVars, indexVars, parserVars, queryVars>>

LoggerNext ==
    \/ Tick
    \/ \E level \in LogLevels, randomness \in UrandomDraws, written \in BOOLEAN :
          Log(level, T_u1, T_login, JoinSpace(<<T_login, T_failed>>), T_auth,
              randomness, written)
    \/ LoadExistingLogs
    \/ CleanupOldLogs
    \/ Return

SpecLogger == LoggerInit /\ [][LoggerNext]_vars

(***************************************************************************)
(* BooleanParser.parse, one step of _parse_expression at a time            *)
(***************************************************************************)
\* the tokens queries are made of, and the queries parse is given: every
\* sequence of at most MaxTokens tokens, and the longer ones below
MaxTokens == 4
TermA == <<"a">>
TermB == <<"b">>
TermC == <<"c">>
ParseTokens == {TermA, TermB, OpAND, OpOR, OpNOT, <<"(">>, <<")">>}
TokenLists == UNION {[1..k -> ParseTokens] : k \in 0..MaxTokens}
ChainQueries ==
    {JoinSpace(<<t1, op1, t2, op2, t3>>) :
        t1 \in {TermA}, t2 \in {TermA, TermB}, t3 \in {TermB, TermC},
        op1 \in {OpAND, OpOR}, op2 \in {OpAND, OpOR}}
QueryGroupRight ==
    JoinSpace(<<TermA, OpAND>>) \o <<" ", "(">> \o JoinSpace(<<TermB, OpOR, TermC>>) \o <<")">>
QueryNotGroup ==
    JoinSpace(<<TermA, OpOR, OpNOT>>) \o <<" ", "(">> \o TermB \o <<")">>
QueryUnclosed ==
    JoinSpace(<<TermA, OpAND>>) \o <<" ", "(">> \o JoinSpace(<<TermB, OpOR, TermC>>)
ParseQueries ==
    {JoinSpace(toks) : toks \in TokenLists} \cup ChainQueries
        \cup {QueryGroupRight, QueryNotGroup, QueryUnclosed}

\* an activation of _parse_expression: its tokens, i, stack and current_expr,
\* and j, where it goes on after the sub-expression of a parenthesis
NewActivation(tokens) ==
    [tokens |-> tokens, i |-> 0, stack |-> <<>>, current_expr |-> NoneExpr, j |-> 0]

\* the activation that runs
Top == frames[Len(frames)]
Callers == SubSeq(frames, 1, Len(frames) - 1)
AtToken == frames # <<>> /\ Top.i < Len(Top.tokens)
Token == Top.tokens[Top.i + 1]

ParseInit == CodecIdle /\ MonoIdle /\ IndexIdle /\ ScanIdle /\ LoggerIdle /\ ParserIdle /\ QueryIdle

\* BooleanParser.parse: tokenize the upper-cased query, call _parse_expression
ParseQuery(query) ==
    /\ ParserIdle /\ QueryIdle
    /\ parse_query' = query
    /\ frames' = <<NewActivation(BoolTokenize(Upper(query)))>>
    /\ UNCHANGED <<parsed, codecVars, monoVars, indexVars, scanVars, loggerVars, queryVars>>

\* an exception leaves every activation
RaiseIndexError ==
    /\ frames' = <<>>
    /\ parsed' = IndexError

\* token == '(': find the closing parenthesis, call _parse_expression on the
\* tokens between
OpenParen ==
    /\ AtToken /\ Token = <<"(">>
    /\ LET j == ScanParen(Top.tokens, Top.i + 1, 1)
       IN  frames' = Append(Callers, [Top EXCEPT !.j = j])
                        \o <<NewActivation(SubSeq(Top.tokens, Top.i + 2, j - 1))>>
    /\ UNCHANGED <<parse_query, parsed, codecVars, monoVars, indexVars, scanVars, loggerVars, queryVars>>

\* token in self.operators: push True for NOT, the operator otherwise
PushOperatorMutantStays ==
    /\ AtToken /\ Token \in operators
    /\ frames' = Append(Callers,
                        [Top EXCEPT !.stack = Append(@, IF Token = OpNOT THEN NotFlag
                                                        ELSE Operator(Token))])
    /\ UNCHANGED <<parse_query, parsed, codecVars, monoVars, indexVars, scanVars, loggerVars, queryVars>>

PushOperator ==
    /\ AtToken /\ Token \in operators
    /\ frames' = Append(Callers,
                        [Top EXCEPT !.stack = Append(@, IF Token = OpNOT THEN NotFlag
                                                        ELSE Operator(Token)),
                                    !.i = @ + 1])
    /\ UNCHANGED <<parse_query, parsed, codecVars, monoVars, indexVars, scanVars, loggerVars, queryVars>>

\* a plain term: negated when True is on top of the stack, joined to
\* current_expr with the operator popped from the stack
TakeTerm ==
    /\ AtToken /\ Token # <<"(">> /\ Token \notin operators
    /\ LET negate == Top.stack # <<>> /\ IsBool(Top.stack[Len(Top.stack)])
           rest == IF negate THEN SubSeq(Top.stack, 1, Len(Top.stack) - 1) ELSE Top.stack
           term == BooleanTerm(Lower(Token), negate)
       IN  IF Top.current_expr = NoneExpr
           THEN /\ frames' = Append(Callers, [Top EXCEPT !.stack = rest,
                                                         !.current_expr = term,
                                                         !.i = @ + 1])
                /\ UNCHANGED parsed
           ELSE IF rest = <<>> THEN RaiseIndexError
           ELSE /\ frames' = Append(Callers,
                                    [Top EXCEPT !.stack = SubSeq(rest, 1, Len(rest) - 1),
                                                !.current_expr =
                                                    BooleanExpression(@, rest[Len(rest)], term),
                                                !.i = @ + 1])
                /\ UNCHANGED parsed
    /\ UNCHANGED <<parse_query, codecVars, monoVars, indexVars, scanVars, loggerVars, queryVars>>

\* the loop of a recursive call ends: its current_expr is the sub_expr of the
\* caller, which goes on at i = j
ReturnSubExpression ==
    /\ Len(frames) > 1 /\ ~AtToken
    /\ LET caller == frames[Len(frames) - 1]
           others == SubSeq(frames, 1, Len(frames) - 2)
           sub_expr == Top.current_expr
       IN  IF caller.current_expr = NoneExpr
           THEN /\ frames' = Append(others, [caller EXCEPT !.current_expr = sub_expr,
                                                           !.i = caller.j])
                /\ UNCHANGED parsed
           ELSE IF caller.stack = <<>> THEN RaiseIndexError
           ELSE /\ frames' = Append(others,
                       [caller EXCEPT !.stack = SubSeq(@, 1, Len(@) - 1),
                                      !.current_expr =
                                          BooleanExpression(@, caller.stack[Len(caller.stack)],
                                                            sub_expr),
                                      !.i = caller.j])
                /\ UNCHANGED parsed
    /\ UNCHANGED <<parse_query, codecVars, monoVars, indexVars, scanVars, loggerVars, queryVars>>

\* the loop of the outermost call ends: parse returns current_expr
ReturnTree ==
    /\ Len(frames) = 1 /\ ~AtToken
    /\ parsed' = Top.current_expr
    /\ frames' = <<>>
    /\ UNCHANGED <<parse_query, codecVars, monoVars, indexVars, scanVars, loggerVars, queryVars>>

\* the caller of parse takes what it returned or raised
ParseReturn ==
    /\ parsed # NotParsed
    /\ parse_query' = NoText
    /\ parsed' = NotParsed
    /\ UNCHANGED <<frames, codecVars, monoVars, indexVars, scanVars, loggerVars, queryVars>>

ParseNext ==
    \/ ParserIdle /\ \E query \in ParseQueries : ParseQuery(query)
    \/ OpenParen
    \/ PushOperator
    \/ TakeTerm
    \/ ReturnSubExpression
    \/ ReturnTree
    \/ ParseReturn

SpecParse == ParseInit /\ [][ParseNext]_vars

\* a call that has started runs on: nothing but the interpreter schedules the
\* steps of _parse_expression
SpecParseFair ==
    /\ SpecParse
    /\ WF_vars(OpenParen) /\ WF_vars(PushOperator) /\ WF_vars(TakeTerm)
    /\ WF_vars(ReturnSubExpression) /\ WF_vars(ReturnTree)

(***************************************************************************)
(* Claims on the identity scheme                                           *)
(***************************************************************************)

\* C1: the lexicographic order of two rendered identifiers agrees with the
\* order of their (timestamp, randomness) pairs, which is what ULID.__lt__
\* returns: str(x) < str(y) exactly when x < y.
C1_StringOrderIsPairOrder ==
    phase = "rendered" => (StrLess(sx, sy) <=> UlidLt(x, y))

\* C2: each identifier returned by generate_monotonic renders to a string that
\* sorts strictly after the string of the identifier returned just before it.
C2_MonotonicStringsAscend ==
    \A i \in 1..(Len(issued) - 1) : StrLess(Str(issued[i]), Str(issued[i + 1]))

\* C3: ULID.from_str(str(x)) equals x (same timestamp, same randomness).
C3_RoundTrip ==
    phase = "parsed" => (px # ValueError /\ UlidEq(px, x))


(***************************************************************************)
(* Claims on the index based engines                                       *)
(***************************************************************************)
ResultIds(out) == {out.results[i].doc_id : i \in 1..Len(out.results)}

\* the words of a text as the indexer sees them
TextTerms(text) == SeqRange(Tokenize(text))
\* the terms of the fields a document is registered with now
DocTerms(content) == UNION {TextTerms(content[k].text) : k \in 1..Len(content)}

\* C4: after remove_document(id), until id is added again: no posting map of
\* any term contains id, no term key is left without a posting (so a term that
\* occurred only in that document has no key), and search returns no result
\* for id.
C4_RemovedDocumentUnwound ==
    \A d \in removed :
        /\ \A t \in DOMAIN index : d \notin DOMAIN index[t] /\ DOMAIN index[t] # {}
        /\ last.op = "search" => (last.out.raised = "none" /\ d \notin ResultIds(last.out))

\* d1 held "login failed" and was removed while d2 stays registered: "failed" has
\* no key any more and the search for it returned nothing
C4_Witness ==
    /\ removed = {"d1"} /\ "d1" \in DOMAIN doc_terms /\ T_failed \in doc_terms["d1"]
    /\ DOMAIN documents = {"d2"}
    /\ T_failed \notin DOMAIN index
    /\ last.op = "search" /\ last.query = T_failed /\ last.out = Returned(<<>>)

\* C5: every score search returns is non-negative, and a document whose
\* currently registered fields contain none of the query's terms never appears
\* in the ranked results (also after the same id was added again with other
\* content).
C5_OnlyMatchingDocumentsRanked ==
    last.op = "search" =>
        /\ last.out.raised = "none"
        /\ \A i \in 1..Len(last.out.results) :
              /\ FracGeq(last.out.results[i].score, FracZero)
              /\ TextTerms(last.query) \cap DocTerms(documents[last.out.results[i].doc_id]) # {}

\* every document that owns an index term containing word (case-insensitive
\* substring), within field when one is given
OwnersOfTermsContaining(word, field) ==
    {d \in DOMAIN documents :
        \E t \in DOMAIN index :
            /\ d \in DOMAIN index[t]
            /\ Contains(Lower(t), Lower(word))
            /\ (field = NoField \/ index[t][d].field = field)}

DocumentsAB == [d \in DocIds |-> IF d = "d1" THEN ContentA ELSE ContentB]

\* C6: boolean_search of "X AND Y" returns exactly the documents matching X
\* that also match Y, "X OR Y" those matching X or Y, a plain term matching
\* every document that owns an index term containing it; with A and B of the
\* specification registered once, "ERROR AND login" gives {A} and
\* "login OR logout" gives {A, B}.
C6_AndIntersectsOrUnions ==
    last.op = "boolean_search" =>
        /\ \A a \in BoolWords :
              last.query = a =>
                  last.out.ids = OwnersOfTermsContaining(a, last.field)
        /\ \A a, b \in BoolWords :
              /\ last.query = JoinSpace(<<a, OpAND, b>>) =>
                    /\ last.out.caught = "none"
                    /\ last.out.ids = OwnersOfTermsContaining(a, last.field)
                                        \cap OwnersOfTermsContaining(b, last.field)
                    /\ last.out.ids = BooleanSearch(index, documents, a, last.field).ids
                                        \cap BooleanSearch(index, documents, b, last.field).ids
              /\ last.query = JoinSpace(<<a, OpOR, b>>) =>
                    /\ last.out.caught = "none"
                    /\ last.out.ids = OwnersOfTermsContaining(a, last.field)
                                        \cup OwnersOfTermsContaining(b, last.field)
                    /\ last.out.ids = BooleanSearch(index, documents, a, last.field).ids
                                        \cup BooleanSearch(index, documents, b, last.field).ids
        /\ (documents = DocumentsAB /\ doc_count = 2 /\ last.field = NoField) =>
              /\ last.query = JoinSpace(<<T_ERROR, OpAND, T_login>>) => last.out.ids = {"d1"}
              /\ last.query = JoinSpace(<<T_login, OpOR, T_logout>>) => last.out.ids = {"d1", "d2"}

\* "login OR logout" on A and B returned both, although only one side matches
C6_Witness ==
    /\ documents = DocumentsAB /\ doc_count = 2
    /\ last.op = "boolean_search" /\ last.field = NoField
    /\ last.query = JoinSpace(<<T_login, OpOR, T_logout>>)
    /\ last.out.ids = {"d1", "d2"}
    /\ OwnersOfTermsContaining(T_logout, NoField) = {}

\* a field of the document contains word, whatever the case
DocumentContains(content, word) ==
    \E k \in 1..Len(content) : Contains(Lower(content[k].text), Lower(word))

\* C7: "NOT t" returns the complement of what "t" returns within the
\* registered document ids (disjoint from it, covering all ids with it), so
\* "X AND NOT logout" never returns a document that contains "logout".
C7_NegationIsComplement ==
    last.op = "boolean_search" =>
        /\ \A a \in BoolWords :
              last.query = JoinSpace(<<OpNOT, a>>) =>
                  LET plain == BooleanSearch(index, documents, a, last.field).ids IN
                  /\ last.out.caught = "none"
                  /\ last.out.ids \cap plain = {}
                  /\ last.out.ids \cup plain = DOMAIN documents
        /\ \A a \in BoolWords :
              (last.query = JoinSpace(<<a, OpAND, OpNOT, T_logout>>) /\ last.field = NoField) =>
                  /\ last.out.caught = "none"
                  /\ \A d \in last.out.ids : ~DocumentContains(documents[d], T_logout)
                  /\ last.out.ids =
                        OwnersOfTermsContaining(a, NoField)
                            \ OwnersOfTermsContaining(T_logout, NoField)

\* d1 contains "logout", d2 does not: "ERROR AND NOT logout" returned d2 alone,
\* though both documents match ERROR
C7_Witness ==
    /\ DOMAIN documents = {"d1", "d2"}
    /\ documents["d1"] = ContentC /\ documents["d2"] = ContentA
    /\ last.op = "boolean_search" /\ last.field = NoField
    /\ last.query = JoinSpace(<<T_ERROR, OpAND, OpNOT, T_logout>>)
    /\ last.out.ids = {"d2"}

\* C8: fuzzy_search and boolean_search never propagate an exception to their
\* caller, whatever the index state and the query.
C8_SearchesNeverRaise ==
    last.op \in {"fuzzy_search", "boolean_search"} => last.out.raised = "none"

\* C9: fuzzy_search(query, 1.0) with a query equal (after case folding) to a
\* registered candidate returns exactly the documents that own the candidate,
\* each with score exactly 1.0.
C9_ExactThresholdReturnsOwners ==
    (/\ last.op = "fuzzy_search"
     /\ last.threshold = FracOne
     /\ Lower(last.query) \in DOMAIN term_docs) =>
        /\ last.out.raised = "none"
        /\ ResultIds(last.out) = term_docs[Lower(last.query)]
        /\ \A i \in 1..Len(last.out.results) : last.out.results[i].score = FracOne

\* C10: fuzzy_search(query, 0.0) returns, for every query, every document that
\* has at least one registered candidate.
C10_ZeroThresholdReturnsAll ==
    (last.op = "fuzzy_search" /\ last.threshold = FracZero) =>
        /\ last.out.raised = "none"
        /\ ResultIds(last.out) = UNION {term_docs[t] : t \in DOMAIN term_docs}

(***************************************************************************)
(* Claims on the filter-scan engine                                        *)
(***************************************************************************)
\* the number a record's timestamp stands for, -1 when it has none
TimestampOf(entry) ==
    IF "timestamp" \in DOMAIN entry /\ ~IsError(Float(entry["timestamp"]))
    THEN Float(entry["timestamp"]).val ELSE -1

\* C11: a filter-scan query built with in_timeframe(t0, t1) returns only
\* records whose timestamp satisfies t0 <= timestamp <= t1, whatever other
\* predicates are set and whatever the corpus contains.
C11_TimeframeBoundsResults ==
    (last.op = "filter_scan" /\ last.query.start_time # PyNone) =>
        \A i \in 1..Len(last.out.results) :
            /\ TimestampOf(last.out.results[i]) >= last.query.start_time.t
            /\ TimestampOf(last.out.results[i]) <= last.query.end_time.t

\* the corpus holds records at 3, 1 and 2; the scan of [1, 2] returned two of them
C11_Witness ==
    /\ storage = <<R3, R1, R2>>
    /\ last.op = "filter_scan"
    /\ last.query.start_time = Datetime(1) /\ last.query.end_time = Datetime(2)
    /\ last.query.filters = <<>> /\ last.query.limit = PyNone
    /\ Len(last.out.results) = 2

\* C12: the list a filter-scan returns is sorted by record timestamp, descending
\* by default: with the default sort order, a returned record's timestamp is
\* greater than or equal to the timestamp of every record returned after it.
C12_ResultsSortedDescending ==
    (last.op = "filter_scan" /\ last.query.sort_order = "desc") =>
        \A i, j \in 1..Len(last.out.results) :
            (/\ i < j
             /\ TimestampOf(last.out.results[i]) >= 0
             /\ TimestampOf(last.out.results[j]) >= 0) =>
                TimestampOf(last.out.results[i]) >= TimestampOf(last.out.results[j])

\* the time-sorted matches of the query of the last scan, before any limit
SortedMatches ==
    LogSearch(storage, [last.query EXCEPT !.limit = PyNone]).results

\* C13: a filter-scan query with limit n returns at most n records, for every
\* n >= 0, and the records kept are the first n of the time-sorted matches.
C13_LimitCapsResults ==
    (last.op = "filter_scan" /\ last.query.limit # PyNone /\ last.out.raised = "none") =>
        /\ Len(last.out.results) <= last.query.limit.val
        /\ last.out.results =
              SubSeq(SortedMatches, 1, Min2(last.query.limit.val, Len(SortedMatches)))

\* a stored line that is a JSON object with every field a query reads and a
\* numeric timestamp
WellFormed(line) ==
    /\ line.json
    /\ {"timestamp", "level", "component", "user_id"} \subseteq DOMAIN line.entry
    /\ ~IsError(Float(line.entry["timestamp"]))

\* C14: a filter-scan never aborts on a bad stored line: on a corpus that mixes
\* well-formed records with lines that are not valid JSON or records missing a
\* field the query reads, execution completes without raising and returns the
\* well-formed records that match.
C14_ScanSkipsBadLines ==
    last.op = "filter_scan" =>
        /\ last.out.raised = "none"
        /\ last.query.limit = PyNone =>
              SeqRange(LogSearch(SelectSeq(storage, WellFormed), last.query).results)
                  \subseteq SeqRange(last.out.results)


(***************************************************************************)
(* Claims on the scores of the ranked engine                               *)
(***************************************************************************)
\* the tokens `more` are the tokens `fewer` with one more occurrence of term
OneMoreOccurrence(fewer, more, term) ==
    /\ Len(more) = Len(fewer) + 1
    /\ \E p \in 1..Len(more) :
          /\ more[p] = term
          /\ SubSeq(more, 1, p - 1) \o SubSeq(more, p + 1, Len(more)) = fewer

\* the content `more` is the content `fewer` with one more occurrence of term in
\* one of its fields, all else equal
IncreasesTerm(fewer, more, term) ==
    /\ Len(fewer) = Len(more)
    /\ \E k \in 1..Len(more) :
          /\ fewer[k].field = more[k].field
          /\ OneMoreOccurrence(Tokenize(fewer[k].text), Tokenize(more[k].text), term)
          /\ \A j \in (1..Len(more)) \ {k} : fewer[j] = more[j]

\* the index with doc_id registered afresh under content, the others as they are
Registered(idx, doc_id, content) ==
    IndexFields(Unindex(idx, doc_id), doc_id, content, 1)

\* the score a result list gives doc_id (a document that is not listed has none)
ScoreIn(results, doc_id) ==
    IF \E i \in 1..Len(results) : results[i].doc_id = doc_id
    THEN (CHOOSE r \in SeqRange(results) : r.doc_id = doc_id).score
    ELSE FracZero

ScoreWith(content, doc_id) ==
    LET scores == Scores(Registered(index, doc_id, content), doc_count,
                         last.query, last.field)
    IN  IF doc_id \in DOMAIN scores THEN scores[doc_id] ELSE FracZero

\* C15: for a fixed index of other documents and a fixed query, a document
\* scores at least what it would score with one occurrence fewer of a query
\* term: more occurrences of a query term never decrease its score.
C15_MoreOccurrencesNeverLowerScore ==
    (last.op = "search" /\ last.out.raised = "none") =>
        \A d \in DOMAIN documents, fewer \in RankContents,
           term \in SeqRange(Tokenize(last.query)) :
            (/\ IncreasesTerm(fewer, documents[d], term)
             /\ index = Registered(index, d, documents[d]))
            => FracGeq(ScoreIn(last.out.results, d), ScoreWith(fewer, d))


(***************************************************************************)
(* Claims on AdvancedLogger                                                *)
(***************************************************************************)
\* the identifiers ULID.generate can give within the clock of the model
LoggedUlids == {ULID(t, r) : t \in 0..(MaxClock + 1), r \in UrandomDraws \cup {RandOf(1)}}

\* the identifier a rendered id stands for
UlidOf(str) == CHOOSE u \in LoggedUlids : Str(u) = str

\* the ids of the records in the log file, in the order they were written
RECURSIVE StoredIdsFrom(_, _)
StoredIdsFrom(lines, i) ==
    IF i > Len(lines) THEN <<>>
    ELSE (IF lines[i].json /\ "id" \in DOMAIN lines[i].entry
          THEN <<lines[i].entry["id"].val>> ELSE <<>>) \o StoredIdsFrom(lines, i + 1)

StoredIds == StoredIdsFrom(storage, 1)

\* C16: the identifiers AdvancedLogger.log assigns are never reused and a record
\* logged after another, also within the same millisecond, gets an identifier
\* that orders strictly after the earlier record's.
C16_LoggedIdsAscend ==
    \A i, j \in 1..Len(StoredIds) :
        i < j => UlidLt(UlidOf(StoredIds[i]), UlidOf(StoredIds[j]))

\* the boolean indexer of the logger, as a record
BooleanIndexer ==
    [index |-> index, documents |-> documents, doc_count |-> doc_count,
     term_docs |-> term_docs, doc_terms |-> doc_terms]

\* an indexer holds a document doc_id for its ranked, fuzzy and boolean searches
HoldsDocument(indexer, doc_id) ==
    /\ doc_id \in DOMAIN indexer.documents
    /\ \E t \in DOMAIN indexer.index : doc_id \in DOMAIN indexer.index[t]
    /\ doc_id \in DOMAIN indexer.doc_terms

IndexedIds == (DOMAIN documents) \cup (DOMAIN fuzzy_indexer.documents)

\* log() returned an id: the record is stored and both indexers hold it
ReturnedIdIsStoredAndIndexed ==
    (last.op = "log" /\ last.out # PyNone) =>
        /\ last.out.val \in SeqRange(StoredIds)
        /\ HoldsDocument(fuzzy_indexer, last.out.val)
        /\ HoldsDocument(BooleanIndexer, last.out.val)

\* C17 as stated: whenever log() returns an id, storage holds a record with that
\* id and the ranked, fuzzy and boolean indexes hold a document with that id,
\* and at every point each indexed document id has a persisted record.
C17_IndexedIdsArePersisted ==
    /\ ReturnedIdIsStoredAndIndexed
    /\ IndexedIds \subseteq SeqRange(StoredIds)

\* C17, amended: whenever log() returns an id, storage holds a record with that
\* id and the ranked, fuzzy and boolean indexes hold a document with that id,
\* and each document id has a persisted record at the point it is registered
\* with an index (the retention cleanup may unlink the file afterwards, and the
\* indexes keep the id).
C17_PersistedWhenRegistered ==
    /\ []ReturnedIdIsStoredAndIndexed
    /\ [][\A doc_id \in IndexedIds' \ IndexedIds : doc_id \in SeqRange(StoredIds')]_vars

\* log() returns an id while an earlier record, still indexed, has been unlinked
C17_Witness ==
    /\ last.op = "log" /\ last.out # PyNone
    /\ ~(IndexedIds \subseteq SeqRange(StoredIds))


(***************************************************************************)
(* Claims on the critical section of generate_monotonic                    *)
(***************************************************************************)
\* the threads between the acquisition and the release of ULID._lock
InCriticalSection == {t \in Threads : pc[t] # "idle"}

\* C18: the callers of generate_monotonic are serialized by one critical
\* section: at most one thread is between the read of the stored pair and its
\* write-back, and it holds the lock; under every interleaving no two calls
\* return the same identifier, and the stored pair is the last identifier
\* returned.
C18_CallersSerialized ==
    /\ Cardinality(InCriticalSection) <= 1
    /\ \A t \in InCriticalSection : lock = t
    /\ \A i, j \in 1..Len(issued) : i # j => ~UlidEq(issued[i], issued[j])
    /\ Len(issued) > 0 =>
          ULID(last_timestamp, last_randomness) = issued[Len(issued)]

\* two identifiers were returned within one millisecond and a further caller is
\* inside the critical section
C18_Witness ==
    /\ Len(issued) >= 2
    /\ issued[1].timestamp_ms = issued[2].timestamp_ms
    /\ InCriticalSection # {}


\* a call in progress, started while the clock can still advance, returns and
\* releases the lock
CallsReturn ==
    \A t \in Threads :
        (pc[t] # "idle" /\ now < MaxClock) ~> (pc[t] = "idle" /\ lock # t)

\* a caller that waits for the next millisecond yields between two reads of the
\* clock: no step takes it from one read in the loop straight to the next
YieldsWhileWaiting ==
    [][\A t \in Threads :
          ~(pc[t] = "spin" /\ pc'[t] = "spin" /\ spins'[t] # spins[t])]_vars

\* C19: every generate_monotonic() call returns in the end and releases the
\* lock, provided the clock advances: a caller that finds the randomness at its
\* maximum in the current millisecond waits only until the clock advances,
\* yielding while it waits, and no waiting caller is blocked for ever.
C19_CallsReturnYielding == CallsReturn /\ YieldsWhileWaiting


(***************************************************************************)
(* Claims on the keys of the inverted index                                *)
(***************************************************************************)
\* C20: in every state reached by add_document, remove_document, search and
\* boolean_search calls a term is a key of the inverted index if and only if it
\* has at least one posting: no key maps to an empty posting map, so the
\* removal of a term's last posting has removed its key.
C20_KeysHavePostings ==
    \A term \in DOMAIN index : DOMAIN index[term] # {}

\* d1 has been removed while d2 stays registered, "failed" is no key, and a
\* search for it has just returned
C20_Witness ==
    /\ removed = {"d1"}
    /\ DOMAIN documents = {"d2"}
    /\ index # <<>>
    /\ T_failed \notin DOMAIN index
    /\ last.op = "search" /\ last.query = T_failed /\ last.out.raised = "none"


(***************************************************************************)
(* Claims on the successor generate_monotonic chooses                      *)
(***************************************************************************)
\* C21: of two consecutive generate_monotonic() calls the second returns a
\* strictly greater (timestamp, randomness) pair; when it returns the
\* timestamp of the first, its randomness is the first's plus 1 (no fresh
\* draw) and the first's was not 2^80 - 1: after the maximum the returned
\* timestamp is later.
C21_SameMillisecondIncrements ==
    \A i \in 1..(Len(issued) - 1) :
        /\ UlidLt(issued[i], issued[i + 1])
        /\ issued[i + 1].timestamp_ms = issued[i].timestamp_ms =>
              /\ issued[i].randomness # RANDOM_MAX
              /\ issued[i + 1].randomness = RandInc(issued[i].randomness)

\* a call after the maximum randomness got a later timestamp, and the call
\* after it, within that millisecond, the randomness plus 1
C21_Witness ==
    /\ Len(issued) = 3
    /\ issued[1].randomness = RANDOM_MAX
    /\ issued[2].timestamp_ms > issued[1].timestamp_ms
    /\ issued[3].timestamp_ms = issued[2].timestamp_ms
    /\ issued[3].randomness = RandInc(issued[2].randomness)


(***************************************************************************)
(* Claims on the postings of the inverted index                            *)
(***************************************************************************)
\* the posting index holds for (term, field, doc_id) is the one add_document
\* computes from the tokens of that field
HasPosting(term, field, doc_id, tokens) ==
    /\ term \in DOMAIN index
    /\ doc_id \in DOMAIN index[term]
    /\ index[term][doc_id].field = field
    /\ index[term][doc_id].positions = Positions(tokens, term)
    /\ index[term][doc_id].positions # <<>>
    /\ index[term][doc_id].tf = Frac(Len(Positions(tokens, term)), Len(tokens))

\* C22: add_document(id, fields) stores one posting for every (term, field, id)
\* in which the term occurs in that field, with its positions, sorted and
\* non-empty, and term_frequency = occurrences / tokens of the field; a term
\* that occurs in two fields of a document has a posting for each.
C22_OnePostingPerTermAndField ==
    \A doc_id \in DOMAIN documents :
        \A k \in 1..Len(documents[doc_id]) :
            \A term \in SeqRange(Tokenize(documents[doc_id][k].text)) :
                HasPosting(term, documents[doc_id][k].field, doc_id,
                           Tokenize(documents[doc_id][k].text))


\* the tokens of field f of a document (none when it has no such field)
RECURSIVE FieldTokens(_, _, _)
FieldTokens(content, f, k) ==
    IF k > Len(content) THEN <<>>
    ELSE IF content[k].field = f THEN Tokenize(content[k].text)
    ELSE FieldTokens(content, f, k + 1)

\* sum over the query terms of (tf of the term in the field) * idf
RECURSIVE FieldScore(_, _, _)
FieldScore(tokens, query_terms, i) ==
    IF i > Len(query_terms) THEN FracZero
    ELSE IF query_terms[i] \in SeqRange(tokens) /\ query_terms[i] \in DOMAIN index
    THEN FracAdd(FracMul(CalculateTf(Len(Positions(tokens, query_terms[i])), Len(tokens)),
                         CalculateIdf(index, doc_count, query_terms[i])),
                 FieldScore(tokens, query_terms, i + 1))
    ELSE FieldScore(tokens, query_terms, i + 1)

\* C23: search(query, field=f) restricts scoring to field f: a registered
\* document is returned exactly when its field f contains at least one query
\* term, and its score is the sum over the query terms of tf in field f times
\* idf, whatever its other fields hold.
C23_FieldSearchScoresThatField ==
    (last # NoCall /\ last.op = "search" /\ last.field # NoField
        /\ last.out.raised = "none") =>
        /\ ResultIds(last.out) =
              {d \in DOMAIN documents :
                  SeqRange(FieldTokens(documents[d], last.field, 1))
                      \cap SeqRange(Tokenize(last.query)) # {}}
        /\ \A d \in ResultIds(last.out) :
              ScoreIn(last.out.results, d) =
                  FieldScore(FieldTokens(documents[d], last.field, 1),
                             Tokenize(last.query), 1)


(***************************************************************************)
(* Claims on the trees BooleanParser.parse returns                         *)
(***************************************************************************)
\* the trees of the specification: Term{text, negated} leaves and
\* Expression{left, operator, right} nodes
Leaf(text, negated) == [kind |-> "term", term |-> text, is_negated |-> negated]
Node(l, operator, r) == [kind |-> "expr", left |-> l, operator |-> operator, right |-> r]

ParseTokensOf(query) == BoolTokenize(Upper(query))
IsPlain(token) == token \notin operators /\ token # <<"(">> /\ token # <<")">>

\* t1 op1 t2 op2 ... tn: plain terms joined by AND and OR, no parentheses
IsChain(tokens) ==
    /\ Len(tokens) % 2 = 1
    /\ \A k \in 1..Len(tokens) :
          IF k % 2 = 1 THEN IsPlain(tokens[k]) ELSE tokens[k] \in {OpAND, OpOR}

\* the grouping to the left of the first n tokens of a chain
RECURSIVE LeftGrouped(_, _)
LeftGrouped(tokens, n) ==
    IF n = 1 THEN Leaf(Lower(tokens[1]), FALSE)
    ELSE Node(LeftGrouped(tokens, n - 2), Operator(tokens[n - 1]),
              Leaf(Lower(tokens[n]), FALSE))

\* C24: the boolean parser is flat and left-associative, AND and OR have the
\* same precedence: t1 op1 t2 op2 t3 without parentheses parses to
\* Expression(Expression(t1, op1, t2), op2, t3), and parentheses change the
\* grouping: "a AND (b OR c)" parses to Expression(a, AND, Expression(b, OR, c)).
C24_FlatLeftAssociative ==
    parsed # NotParsed =>
        /\ IsChain(ParseTokensOf(parse_query)) =>
              parsed = LeftGrouped(ParseTokensOf(parse_query),
                                   Len(ParseTokensOf(parse_query)))
        /\ parse_query = QueryGroupRight =>
              parsed = Node(Leaf(TermA, FALSE), Operator(OpAND),
                            Node(Leaf(TermB, FALSE), Operator(OpOR), Leaf(TermC, FALSE)))

C24_Witness ==
    /\ parse_query = JoinSpace(<<TermA, OpOR, TermB, OpAND, TermC>>)
    /\ parsed = Node(Node(Leaf(TermA, FALSE), Operator(OpOR), Leaf(TermB, FALSE)),
                     Operator(OpAND), Leaf(TermC, FALSE))


IsTree(tree) == tree # NotParsed /\ tree # IndexError

\* the Expression nodes and the Term leaves of a tree, the leaves from left to
\* right (a side that is None has neither)
RECURSIVE ExpressionNodes(_)
ExpressionNodes(tree) ==
    IF tree.kind = "expr"
    THEN {tree} \cup ExpressionNodes(tree.left) \cup ExpressionNodes(tree.right)
    ELSE {}

RECURSIVE Leaves(_)
Leaves(tree) ==
    IF tree.kind = "expr" THEN Leaves(tree.left) \o Leaves(tree.right)
    ELSE IF tree.kind = "term" THEN <<tree>>
    ELSE <<>>

\* a plain term of the query that directly follows a NOT token
FollowsNot(tokens, text) ==
    \E k \in 1..(Len(tokens) - 1) :
        tokens[k] = OpNOT /\ IsPlain(tokens[k + 1]) /\ Lower(tokens[k + 1]) = text

\* C25: in every tree the parser returns NOT is neither a node nor an
\* operator: every Expression node's operator is AND or OR, and a leaf is
\* negated only as the single plain term that follows a NOT token.
C25_NotIsOnlyALeafFlag ==
    IsTree(parsed) =>
        /\ \A node \in ExpressionNodes(parsed) :
              node.operator \in {Operator(OpAND), Operator(OpOR)}
        /\ \A k \in 1..Len(Leaves(parsed)) :
              Leaves(parsed)[k].is_negated =>
                  FollowsNot(ParseTokensOf(parse_query), Leaves(parsed)[k].term)


(***************************************************************************)
(* Claims on the progress of BooleanParser.parse                           *)
(***************************************************************************)
\* a step of _parse_expression moves the activation that runs to a later
\* token, or calls _parse_expression on fewer tokens than the caller has, or
\* returns to a caller that goes on at a later token, or ends the call of parse
StepAdvances ==
    frames # <<>> =>
        \/ frames' = <<>>
        \/ /\ Len(frames') = Len(frames)
           /\ Callers' = Callers
           /\ Top'.tokens = Top.tokens /\ Top'.i > Top.i
        \/ /\ Len(frames') = Len(frames) + 1
           /\ Len(Top'.tokens) < Len(Top.tokens)
           /\ Top'.i = 0
        \/ /\ Len(frames') = Len(frames) - 1
           /\ Top'.tokens = frames[Len(frames) - 1].tokens
           /\ Top'.i > frames[Len(frames) - 1].i

\* C29: BooleanParser.parse terminates for every finite query, unbalanced or
\* empty parentheses, consecutive and trailing operators included: each loop
\* step strictly advances the token index, each recursive call gets a strictly
\* shorter token span, and a call that has started returns or raises.
C29_ParseTerminates ==
    /\ [][StepAdvances]_vars
    /\ (frames # <<>>) ~> (parsed # NotParsed)

C29_Witness ==
    /\ parse_query = JoinSpace(<<<<"(">>, <<"(">>, OpOR, OpOR>>)
    /\ parsed # NotParsed


(***************************************************************************)
(* Claims on the terms of a parsed query                                   *)
(***************************************************************************)
\* the plain terms of the query, lower-cased, in the order they are written
RECURSIVE PlainTerms(_)
PlainTerms(tokens) ==
    IF tokens = <<>> THEN <<>>
    ELSE IF IsPlain(Head(tokens)) THEN <<Lower(Head(tokens))>> \o PlainTerms(Tail(tokens))
    ELSE PlainTerms(Tail(tokens))

\* the texts of the leaves that stand for plain terms
RECURSIVE LeafTerms(_)
LeafTerms(leaves) ==
    IF leaves = <<>> THEN <<>>
    ELSE IF IsPlain(Head(leaves).term) THEN <<Head(leaves).term>> \o LeafTerms(Tail(leaves))
    ELSE LeafTerms(Tail(leaves))

\* C30: the parser never silently drops a term: whenever parse returns a
\* tree, every token of the query that is neither an operator nor a
\* parenthesis is exactly one Term leaf of the tree, also when a parenthesis
\* is left unclosed.
C30_EveryTermIsALeaf ==
    IsTree(parsed) =>
        LeafTerms(Leaves(parsed)) = PlainTerms(ParseTokensOf(parse_query))


(***************************************************************************)
(* Claims on the document count                                            *)
(***************************************************************************)
\* C28: after any sequence of add_document and remove_document calls, adding
\* a registered id and removing an unregistered one included, doc_count is the
\* number of entries of documents, and it is never negative.
C28_DocCountIsNumberOfDocuments ==
    /\ doc_count = Cardinality(DOMAIN documents)
    /\ doc_count >= 0


(***************************************************************************)
(* Claims on removal from the fuzzy index                                  *)
(***************************************************************************)
\* C27: removal fully unwinds a document in the fuzzy and the boolean indexer:
\* after remove_document(id) no fuzzy candidate maps to id, and fuzzy_search,
\* whatever the query and the threshold, neither returns id nor fails on it.
C27_RemovalUnwindsFuzzyCandidates ==
    \A doc_id \in removed :
        /\ \A candidate \in DOMAIN term_docs : doc_id \notin term_docs[candidate]
        /\ doc_id \notin DOMAIN doc_terms
        /\ (last # NoCall /\ last.op = "fuzzy_search") =>
              /\ last.out.raised # "KeyError"
              /\ doc_id \notin ResultIds(last.out)


(***************************************************************************)
(* Claims on the freshness of the filter-scan                              *)
(***************************************************************************)
\* the record of line satisfies every predicate of the query that was built and
\* the time bounds its caller gave: from start on, and up to end when the
\* caller gave one
MatchesBuilt(line) ==
    /\ AllFilters(built.query.filters, JsonLoads(line), 1) = "True"
    /\ built.timeframe # NoTimeframe =>
          /\ TimestampOf(JsonLoads(line)) >= built.timeframe.start.t
          /\ built.timeframe.end # PyNone =>
                TimestampOf(JsonLoads(line)) <= built.timeframe.end.t

\* C26: a filter-scan execution has no staleness window: with no limit set it
\* returns exactly the records persisted when it runs that satisfy every
\* predicate of the query and its time bounds; a matching record appended after
\* the query was built, also with in_timeframe(t0) and no explicit end, is
\* returned by a later execute.
C26_NoStalenessWindow ==
    (last # NoCall /\ last.op = "execute") =>
        /\ last.out.raised = "none"
        /\ Len(last.out.results) =
              Cardinality({k \in 1..Len(storage) : MatchesBuilt(storage[k])})
        /\ SeqRange(last.out.results) =
              {JsonLoads(storage[k]) : k \in {n \in 1..Len(storage) : MatchesBuilt(storage[n])}}

=============================================================================
